---- MODULE Spec2Model ----
(***************************************************************************)
(* Flight tracker: the status resolver (src/flightService.js), the         *)
(* monitoring-eligibility predicates and the bulk status sweep             *)
(* (src/server.js), in the in-memory storage mode.                         *)
(*                                                                         *)
(* Time is an integer count of 30-second units, so that the half minute    *)
(* Math.round decides on is representable.                                 *)
(***************************************************************************)
EXTENDS Integers, Sequences, FiniteSets, TLC

VARIABLES
    apiKey,      \* FlightService.apiKey is set (process.env.FLIGHTAWARE_API_KEY)
    request,     \* resolver check: the flight number asked for and the provider's answer
    outcome,     \* resolver check: what getFlightStatus returned or threw
    flight,      \* eligibility check: the flight record examined, and the clock
    verdict,     \* eligibility check: results of shouldMonitorFlight / isFlightInPast
    flights,     \* server.js `flights`: the in-memory store, in array order
    nextId,      \* server.js `nextId`
    now,         \* the wall clock (Date.now())
    calls,       \* updateFlightStatus invocations awaiting the provider
    sweeps,      \* the updateAllFlights invocations started so far
    history,     \* function checks: the calls made so far, with their results
    reply        \* API model: the HTTP response sent last (res.json)

vars == <<apiKey, request, outcome, flight, verdict, flights, nextId, now,
          calls, sweeps, history, reply>>

----------------------------------------------------------------------------
(* Time scales: the code divides milliseconds; the model counts 30 s units. *)

UnitsPerMinute == 2
UnitsPerHour == 60 * UnitsPerMinute
UnitsPerDay == 24 * UnitsPerHour

----------------------------------------------------------------------------
(* JavaScript values.  A timestamp-like or numeric field is a record        *)
(* [kind, t]: undefined, a string no Date can parse, a parseable date at    *)
(* time t, or the number t.                                                  *)

Undefined == [kind |-> "undefined", t |-> 0]
Garbage == [kind |-> "garbage", t |-> 0]
DateAt(t) == [kind |-> "date", t |-> t]
Num(n) == [kind |-> "number", t |-> n]
NoString == "<undefined>"

\* No HTTP request has been answered yet.
NoResponse == [seq |-> 0]

\* JavaScript truthiness of a field value: undefined and 0 are falsy,
\* non-empty strings (dates, garbage) and non-zero numbers are truthy.
Truthy(v) == /\ v.kind # "undefined"
             /\ ~(v.kind = "number" /\ v.t = 0)

\* a || b
OrElse(a, b) == IF Truthy(a) THEN a ELSE b

\* new Date(v): an Invalid Date (NaN) unless v is a parseable date string.
NewDate(v) == IF v.kind = "date" THEN [nan |-> FALSE, ms |-> v.t]
              ELSE [nan |-> TRUE, ms |-> 0]

\* a - b on Dates: NaN when either is invalid.
DateDiff(a, b) == [nan |-> a.nan \/ b.nan, ms |-> IF a.nan \/ b.nan THEN 0 ELSE a.ms - b.ms]

\* x > c on a possibly-NaN number: every comparison with NaN is false.
GreaterThan(x, c) == ~x.nan /\ x.ms > c

\* x < c on a possibly-NaN number.
LessThan(x, c) == ~x.nan /\ x.ms < c

\* Math.round(h / UnitsPerMinute): to the nearest integer, halves upwards.
MathRound(h) == (2 * h + UnitsPerMinute) \div (2 * UnitsPerMinute)

----------------------------------------------------------------------------
(* Flight numbers are sequences of characters.                              *)

CharCode(c) ==
    CASE c = " " -> 32
      [] c = "0" -> 48 [] c = "1" -> 49 [] c = "2" -> 50 [] c = "3" -> 51
      [] c = "4" -> 52 [] c = "5" -> 53 [] c = "6" -> 54 [] c = "7" -> 55
      [] c = "8" -> 56 [] c = "9" -> 57
      [] c = "A" -> 65 [] c = "B" -> 66 [] c = "C" -> 67
      [] c = "a" -> 97 [] c = "b" -> 98 [] c = "c" -> 99

RECURSIVE SumCodes(_)
SumCodes(s) == IF s = <<>> THEN 0 ELSE CharCode(Head(s)) + SumCodes(Tail(s))

----------------------------------------------------------------------------
(* The status resolver: src/flightService.js                                *)

\* A threshold off by one: `>= 15` written for `> 15`.
DelayThresholdOffByOne == 15 - 1

DelayThresholdMinutes == 15

\* A status-details mapping.  Every key the code may set is a field; a key
\* that was never assigned holds Undefined / NoString / <<>>.
EmptyDetails ==
    [kind |-> "object", message |-> <<>>, flightNumber |-> <<>>,
     origin |-> NoString, destination |-> NoString,
     scheduledDeparture |-> Undefined, actualDeparture |-> Undefined,
     scheduledArrival |-> Undefined, estimatedArrival |-> Undefined,
     actualArrival |-> Undefined, status |-> NoString,
     cancellationReason |-> NoString, divertedTo |-> NoString,
     delayMinutes |-> Undefined, delayReason |-> NoString, note |-> NoString]

\* The value of a key that holds no object (a record without statusDetails).
NoDetails == [EmptyDetails EXCEPT !.kind = "undefined"]

\* x?.code || 'Unknown'
CodeOrUnknown(code) == IF code = NoString THEN "Unknown" ELSE code

Returned(st, det) == [threw |-> FALSE, error |-> <<>>, status |-> st, details |-> det]
Thrown(msg) == [threw |-> TRUE, error |-> msg, status |-> NoString, details |-> NoDetails]

\* formatFlightData with the reported-delay rule tested before the cancellation
\* rules.
formatFlightDataDelayFirst(flightData) ==
    IF flightData.isNull THEN Thrown(<<"Cannot read properties of null">>)
    ELSE
    LET details == [EmptyDetails EXCEPT
                      !.flightNumber = flightData.ident,
                      !.origin = CodeOrUnknown(flightData.origin),
                      !.destination = CodeOrUnknown(flightData.destination),
                      !.scheduledDeparture = flightData.scheduled_out,
                      !.actualDeparture = flightData.actual_out,
                      !.scheduledArrival = flightData.scheduled_in,
                      !.estimatedArrival = flightData.estimated_in,
                      !.actualArrival = flightData.actual_in,
                      !.status = flightData.status]
        delayHalves == DateDiff(NewDate(flightData.actual_out),
                                NewDate(flightData.scheduled_out))
    IN  IF Truthy(flightData.delay_minutes)
           /\ flightData.delay_minutes.t > DelayThresholdMinutes
          THEN Returned("delayed",
                        [details EXCEPT !.delayMinutes = flightData.delay_minutes,
                                        !.delayReason = "Flight delayed"])
        ELSE IF flightData.cancelled
          THEN Returned("cancelled",
                        [details EXCEPT !.cancellationReason = "Flight cancelled"])
        ELSE IF flightData.status = "Cancelled"
          THEN Returned("cancelled", details)
        ELSE IF flightData.status = "Diverted"
          THEN Returned("delayed", [details EXCEPT !.divertedTo = flightData.diverted])
        ELSE IF Truthy(flightData.actual_out) /\ Truthy(flightData.scheduled_out)
          THEN IF GreaterThan(delayHalves, DelayThresholdMinutes * UnitsPerMinute)
                 THEN Returned("delayed",
                               [details EXCEPT
                                  !.delayMinutes = Num(MathRound(delayHalves.ms))])
                 ELSE Returned("on-time", details)
        ELSE Returned("on-time", details)

\* formatFlightData(flightData).  A null element of the provider's list makes
\* the first property read throw a TypeError.
formatFlightData(flightData) ==
    IF flightData.isNull THEN Thrown(<<"Cannot read properties of null">>)
    ELSE
    LET details == [EmptyDetails EXCEPT
                      !.flightNumber = flightData.ident,
                      !.origin = CodeOrUnknown(flightData.origin),
                      !.destination = CodeOrUnknown(flightData.destination),
                      !.scheduledDeparture = flightData.scheduled_out,
                      !.actualDeparture = flightData.actual_out,
                      !.scheduledArrival = flightData.scheduled_in,
                      !.estimatedArrival = flightData.estimated_in,
                      !.actualArrival = flightData.actual_in,
                      !.status = flightData.status]
        delayHalves == DateDiff(NewDate(flightData.actual_out),
                                NewDate(flightData.scheduled_out))
    IN  IF flightData.cancelled
          THEN Returned("cancelled",
                        [details EXCEPT !.cancellationReason = "Flight cancelled"])
        ELSE IF flightData.status = "Cancelled"
          THEN Returned("cancelled", details)
        ELSE IF flightData.status = "Diverted"
          THEN Returned("delayed", [details EXCEPT !.divertedTo = flightData.diverted])
        ELSE IF Truthy(flightData.delay_minutes)
                /\ flightData.delay_minutes.t > DelayThresholdMinutes
          THEN Returned("delayed",
                        [details EXCEPT !.delayMinutes = flightData.delay_minutes,
                                        !.delayReason = "Flight delayed"])
        ELSE IF Truthy(flightData.actual_out) /\ Truthy(flightData.scheduled_out)
          THEN IF GreaterThan(delayHalves, DelayThresholdMinutes * UnitsPerMinute)
                 THEN Returned("delayed",
                               [details EXCEPT
                                  !.delayMinutes = Num(MathRound(delayHalves.ms))])
                 ELSE Returned("on-time", details)
        ELSE Returned("on-time", details)

MockEntry(status, message, delayMinutes, cancellationReason) ==
    [status |-> status, message |-> message, delayMinutes |-> delayMinutes,
     cancellationReason |-> cancellationReason]

\* The table with its cancelled entry one place earlier: 4 on-time, 3 delayed,
\* 1 cancelled, 2 on-time.
MockTableCancelledAtSeven ==
    <<MockEntry("on-time", "Flight is on schedule", Num(0), NoString),
      MockEntry("on-time", "Flight departed on time", Num(0), NoString),
      MockEntry("on-time", "Flight is on schedule", Num(0), NoString),
      MockEntry("on-time", "Flight operating normally", Num(0), NoString),
      MockEntry("delayed", "Flight delayed due to weather", Num(45), NoString),
      MockEntry("delayed", "Flight delayed - mechanical issue", Num(120), NoString),
      MockEntry("delayed", "Flight delayed - crew scheduling", Num(30), NoString),
      MockEntry("cancelled", "Flight cancelled due to weather", Undefined, "Weather"),
      MockEntry("on-time", "Flight is on time", Num(0), NoString),
      MockEntry("on-time", "Flight on schedule", Num(0), NoString)>>

\* The table with the delays of its delayed entries in another order.
MockTableDelaysReordered ==
    <<MockEntry("on-time", "Flight is on schedule", Num(0), NoString),
      MockEntry("on-time", "Flight departed on time", Num(0), NoString),
      MockEntry("on-time", "Flight is on schedule", Num(0), NoString),
      MockEntry("on-time", "Flight operating normally", Num(0), NoString),
      MockEntry("delayed", "Flight delayed due to weather", Num(30), NoString),
      MockEntry("delayed", "Flight delayed - mechanical issue", Num(45), NoString),
      MockEntry("delayed", "Flight delayed - crew scheduling", Num(120), NoString),
      MockEntry("on-time", "Flight is on time", Num(0), NoString),
      MockEntry("cancelled", "Flight cancelled due to weather", Undefined, "Weather"),
      MockEntry("on-time", "Flight on schedule", Num(0), NoString)>>

\* The fixed table of getMockFlightStatus, indexed by hash % 10 (0-based).
MockTable ==
    <<[status |-> "on-time", message |-> "Flight is on schedule", delayMinutes |-> Num(0), cancellationReason |-> NoString],
      [status |-> "on-time", message |-> "Flight departed on time", delayMinutes |-> Num(0), cancellationReason |-> NoString],
      [status |-> "on-time", message |-> "Flight is on schedule", delayMinutes |-> Num(0), cancellationReason |-> NoString],
      [status |-> "on-time", message |-> "Flight operating normally", delayMinutes |-> Num(0), cancellationReason |-> NoString],
      [status |-> "delayed", message |-> "Flight delayed due to weather", delayMinutes |-> Num(45), cancellationReason |-> NoString],
      [status |-> "delayed", message |-> "Flight delayed - mechanical issue", delayMinutes |-> Num(120), cancellationReason |-> NoString],
      [status |-> "delayed", message |-> "Flight delayed - crew scheduling", delayMinutes |-> Num(30), cancellationReason |-> NoString],
      [status |-> "on-time", message |-> "Flight is on time", delayMinutes |-> Num(0), cancellationReason |-> NoString],
      [status |-> "cancelled", message |-> "Flight cancelled due to weather", delayMinutes |-> Undefined, cancellationReason |-> "Weather"],
      [status |-> "on-time", message |-> "Flight on schedule", delayMinutes |-> Num(0), cancellationReason |-> NoString]>>

MockDepartureHours == 2
MockArrivalHours == 8

\* A mock whose table index also depends on the clock.
getMockFlightStatusClockSeeded(flightNumber, t) ==
    LET hash == SumCodes(flightNumber) + t
        statusIndex == hash % 10
        mockData == MockTable[statusIndex + 1]
    IN  Returned(mockData.status,
                 [EmptyDetails EXCEPT
                    !.message = <<mockData.message>>,
                    !.delayMinutes = mockData.delayMinutes,
                    !.cancellationReason = mockData.cancellationReason,
                    !.flightNumber = flightNumber,
                    !.origin = "JFK",
                    !.destination = "LAX",
                    !.scheduledDeparture = DateAt(t + MockDepartureHours * UnitsPerHour),
                    !.estimatedArrival = DateAt(t + MockArrivalHours * UnitsPerHour),
                    !.note = "Using mock data"])

\* getMockFlightStatus(flightNumber), evaluated at clock t.
getMockFlightStatus(flightNumber, t) ==
    LET hash == SumCodes(flightNumber)
        statusIndex == hash % 10
        mockData == MockTable[statusIndex + 1]
    IN  Returned(mockData.status,
                 [EmptyDetails EXCEPT
                    !.message = <<mockData.message>>,
                    !.delayMinutes = mockData.delayMinutes,
                    !.cancellationReason = mockData.cancellationReason,
                    !.flightNumber = flightNumber,
                    !.origin = "JFK",
                    !.destination = "LAX",
                    !.scheduledDeparture = DateAt(t + MockDepartureHours * UnitsPerHour),
                    !.estimatedArrival = DateAt(t + MockArrivalHours * UnitsPerHour),
                    !.note = "Using mock data"])

\* What the provider collaborator can answer to one axios.get:
\*   data     a 2xx body; `flights` is its list (empty when the body has none)
\*   http     a non-2xx answer with status `code` (error.response is set)
\*   network  no answer: timeout or connection failure (error.response unset)
HttpAnswer(code) == [kind |-> "http", code |-> code, flights |-> <<>>]
DataAnswer(list) == [kind |-> "data", code |-> 200, flights |-> list]
NetworkFailure == [kind |-> "network", code |-> 0, flights |-> <<>>]

\* error.message of the axios failure.
AxiosMessage(response) ==
    IF response.kind = "http" THEN "Request failed with status code"
    ELSE "timeout of 10000ms exceeded"

\* The catch block without its 404 branch: a 404 is rethrown like any other
\* failure.
handleRequestErrorNo404(flightNumber, hasResponse, code, message) ==
    IF hasResponse /\ code = 401
      THEN Thrown(<<"Invalid FlightAware API credentials">>)
    ELSE IF hasResponse /\ code = 429
      THEN Thrown(<<"FlightAware API rate limit exceeded">>)
    ELSE Thrown(<<"Failed to fetch flight status: ">> \o message)

\* The catch block of getFlightStatus: `hasResponse` is error.response being
\* set, `code` its status, `message` error.message.
handleRequestError(flightNumber, hasResponse, code, message) ==
    IF hasResponse /\ code = 401
      THEN Thrown(<<"Invalid FlightAware API credentials">>)
    ELSE IF hasResponse /\ code = 404
      THEN Returned("unknown",
                    [EmptyDetails EXCEPT !.message = <<"Flight not found">>,
                                         !.flightNumber = flightNumber])
    ELSE IF hasResponse /\ code = 429
      THEN Thrown(<<"FlightAware API rate limit exceeded">>)
    ELSE Thrown(<<"Failed to fetch flight status: ">> \o message)

\* getFlightStatus(flightNumber) when the provider answers `response` at clock t.
getFlightStatus(key, flightNumber, response, t) ==
    IF ~key THEN getMockFlightStatus(flightNumber, t)
    ELSE IF response.kind = "data"
      THEN IF Len(response.flights) > 0
             THEN LET formatted == formatFlightData(response.flights[1])
                  IN  IF formatted.threw
                        \* a TypeError thrown inside the try block: no error.response
                        THEN handleRequestError(flightNumber, FALSE, 0, formatted.error)
                        ELSE formatted
             ELSE Returned("unknown",
                           [EmptyDetails EXCEPT
                              !.message = <<"Flight not found in FlightAware database">>,
                              !.flightNumber = flightNumber])
    ELSE handleRequestError(flightNumber, response.kind = "http", response.code,
                            <<AxiosMessage(response)>>)

----------------------------------------------------------------------------
(* The monitoring-eligibility predicates: src/server.js                     *)

MonitorHorizonDays == 7
\* The landing window of shouldMonitorFlight set to that of isFlightInPast.
LandedHoursAsPast == 6 - 4
LandedHours == 6
CancelledHours == 24
PastArrivalHours == 2
PastScheduledHours == 4
PastDepartureHours == 8

\* The result of a predicate: a boolean, or a TypeError raised by a property
\* read on undefined.
Pending == [done |-> FALSE, raised |-> FALSE, value |-> FALSE]
Value(b) == [done |-> TRUE, raised |-> FALSE, value |-> b]
TypeError == [done |-> TRUE, raised |-> TRUE, value |-> FALSE]

\* flight.status_details || flight.statusDetails, with no `|| {}` default.
statusDetailsOfNoDefault(f) == OrElse(f.status_details, f.statusDetails)

\* flight.status_details || flight.statusDetails || {}
statusDetailsOf(f) == OrElse(OrElse(f.status_details, f.statusDetails), EmptyDetails)

\* flight.departure_time || flight.departureTime
departureOf(f) == OrElse(f.departure_time, f.departureTime)

\* flight.last_checked || flight.lastChecked
lastCheckedOf(f) == OrElse(f.last_checked, f.lastChecked)

\* shouldMonitorFlight with the estimated arrival consulted only when there is
\* no actual arrival (`else if`).
shouldMonitorFlightElseIf(f, t) ==
    LET clock == NewDate(DateAt(t))
        departureTime == NewDate(departureOf(f))
        statusDetails == statusDetailsOf(f)
        hoursSinceLastCheck ==
            IF Truthy(lastCheckedOf(f))
              THEN DateDiff(clock, NewDate(lastCheckedOf(f)))
              ELSE [nan |-> FALSE, ms |-> 0]
    IN  IF GreaterThan(DateDiff(departureTime, clock), MonitorHorizonDays * UnitsPerDay)
          THEN Value(FALSE)
        ELSE IF statusDetails.kind # "object" THEN TypeError
        ELSE IF /\ Truthy(statusDetails.actualArrival)
                /\ GreaterThan(DateDiff(clock, NewDate(statusDetails.actualArrival)),
                               LandedHours * UnitsPerHour)
          THEN Value(FALSE)
        ELSE IF /\ ~Truthy(statusDetails.actualArrival)
                /\ Truthy(statusDetails.estimatedArrival)
                /\ GreaterThan(DateDiff(clock, NewDate(statusDetails.estimatedArrival)),
                               LandedHours * UnitsPerHour)
          THEN Value(FALSE)
        ELSE IF /\ f.status = "cancelled"
                /\ GreaterThan(hoursSinceLastCheck, CancelledHours * UnitsPerHour)
          THEN Value(FALSE)
        ELSE Value(TRUE)

\* shouldMonitorFlight(flight), evaluated at clock t.
shouldMonitorFlight(f, t) ==
    LET clock == NewDate(DateAt(t))
        departureTime == NewDate(departureOf(f))
        statusDetails == statusDetailsOf(f)
        hoursSinceLastCheck ==
            IF Truthy(lastCheckedOf(f))
              THEN DateDiff(clock, NewDate(lastCheckedOf(f)))
              ELSE [nan |-> FALSE, ms |-> 0]
    IN  IF GreaterThan(DateDiff(departureTime, clock), MonitorHorizonDays * UnitsPerDay)
          THEN Value(FALSE)
        \* statusDetails.actualArrival: a TypeError when statusDetails is undefined
        ELSE IF statusDetails.kind # "object" THEN TypeError
        ELSE IF /\ Truthy(statusDetails.actualArrival)
                /\ GreaterThan(DateDiff(clock, NewDate(statusDetails.actualArrival)),
                               LandedHours * UnitsPerHour)
          THEN Value(FALSE)
        ELSE IF /\ Truthy(statusDetails.estimatedArrival)
                /\ GreaterThan(DateDiff(clock, NewDate(statusDetails.estimatedArrival)),
                               LandedHours * UnitsPerHour)
          THEN Value(FALSE)
        ELSE IF /\ f.status = "cancelled"
                /\ GreaterThan(hoursSinceLastCheck, CancelledHours * UnitsPerHour)
          THEN Value(FALSE)
        ELSE Value(TRUE)

\* isFlightInPast with each rule written as a condition that falls through to
\* the next rule when it does not hold.
isFlightInPastFallThrough(f, t) ==
    LET clock == NewDate(DateAt(t))
        statusDetails == statusDetailsOf(f)
        departureTime == NewDate(departureOf(f))
    IN  IF statusDetails.kind # "object" THEN TypeError
        ELSE IF /\ Truthy(statusDetails.actualArrival)
                /\ GreaterThan(DateDiff(clock, NewDate(statusDetails.actualArrival)),
                               PastArrivalHours * UnitsPerHour)
          THEN Value(TRUE)
        ELSE IF /\ Truthy(statusDetails.estimatedArrival)
                /\ GreaterThan(DateDiff(clock, NewDate(statusDetails.estimatedArrival)),
                               PastArrivalHours * UnitsPerHour)
          THEN Value(TRUE)
        ELSE IF /\ Truthy(statusDetails.scheduledArrival)
                /\ GreaterThan(DateDiff(clock, NewDate(statusDetails.scheduledArrival)),
                               PastScheduledHours * UnitsPerHour)
          THEN Value(TRUE)
        ELSE IF ~departureTime.nan
          THEN Value(GreaterThan(DateDiff(clock, departureTime),
                                 PastDepartureHours * UnitsPerHour))
        ELSE Value(FALSE)

\* isFlightInPast(flight), evaluated at clock t.
isFlightInPast(f, t) ==
    LET clock == NewDate(DateAt(t))
        statusDetails == statusDetailsOf(f)
        departureTime == NewDate(departureOf(f))
    IN  \* statusDetails.actualArrival: a TypeError when statusDetails is undefined
        IF statusDetails.kind # "object" THEN TypeError
        ELSE IF Truthy(statusDetails.actualArrival)
          THEN Value(GreaterThan(DateDiff(clock, NewDate(statusDetails.actualArrival)),
                                 PastArrivalHours * UnitsPerHour))
        ELSE IF Truthy(statusDetails.estimatedArrival)
          THEN Value(GreaterThan(DateDiff(clock, NewDate(statusDetails.estimatedArrival)),
                                 PastArrivalHours * UnitsPerHour))
        ELSE IF Truthy(statusDetails.scheduledArrival)
          THEN Value(GreaterThan(DateDiff(clock, NewDate(statusDetails.scheduledArrival)),
                                 PastScheduledHours * UnitsPerHour))
        ELSE IF ~departureTime.nan
          THEN Value(GreaterThan(DateDiff(clock, departureTime),
                                 PastDepartureHours * UnitsPerHour))
        ELSE Value(FALSE)

----------------------------------------------------------------------------
(* Resolver check: getFlightStatus applied to every provider answer of a    *)
(* bounded set.                                                             *)

MaxDelayMinutes == 17     \* delay_minutes ranges over 0..MaxDelayMinutes, and 120
MaxDepartureLag == 34     \* actual_out - scheduled_out ranges up to this, in 30 s units

NoFlight ==
    [isNull |-> TRUE, ident |-> <<>>, cancelled |-> FALSE, status |-> NoString,
     delay_minutes |-> Undefined, scheduled_out |-> Undefined, actual_out |-> Undefined,
     scheduled_in |-> Undefined, estimated_in |-> Undefined, actual_in |-> Undefined,
     origin |-> NoString, destination |-> NoString, diverted |-> NoString]

\* Provider payloads: every combination of the fields the classification reads.
ResolverPayloads ==
    { [NoFlight EXCEPT !.isNull = FALSE, !.ident = <<"A", "A", "1">>,
                       !.cancelled = c, !.status = s, !.delay_minutes = d,
                       !.scheduled_out = so, !.actual_out = ao,
                       !.origin = "JFK", !.diverted = "ORD"] :
        c \in BOOLEAN,
        s \in {NoString, "Cancelled", "Diverted", "Scheduled"},
        d \in {Undefined, Num(120)} \cup {Num(n) : n \in 0..MaxDelayMinutes},
        so \in {Undefined, Garbage, DateAt(0)},
        ao \in {Undefined, Garbage} \cup {DateAt(h) : h \in (-2)..MaxDepartureLag} }

ResolverAnswers ==
    {DataAnswer(<<p>>) : p \in ResolverPayloads}
    \cup {DataAnswer(<<>>), DataAnswer(<<NoFlight>>), NetworkFailure}
    \cup {HttpAnswer(c) : c \in {401, 404, 429, 500}}

ResolverFlightNumbers == {<<"A", "A", "1">>, <<"A", "B", "1", "2">>}

NotResolved == [pc |-> "idle", result |-> Returned(NoString, NoDetails)]
NoRequest == [flightNumber |-> <<>>, response |-> NetworkFailure]
NoRecord == [pc |-> "none"]

\* Without a credential no provider call is made: the answer is never read.
ResolverRequests(key) ==
    [flightNumber : ResolverFlightNumbers,
     response : IF key THEN ResolverAnswers ELSE {NetworkFailure}]

unusedByResolver == <<flight, verdict, flights, nextId, now, calls, sweeps, history, reply>>

ResolverInit ==
    /\ apiKey \in BOOLEAN
    /\ request \in ResolverRequests(apiKey)
    /\ outcome = NotResolved
    /\ flight = NoRecord
    /\ verdict = NoRecord
    /\ flights = <<>>
    /\ nextId = 1
    /\ now = 0
    /\ calls = {}
    /\ sweeps = <<>>
    /\ history = <<>>
    /\ reply = NoResponse

\* One call of getFlightStatus.
Resolve ==
    /\ outcome.pc = "idle"
    /\ outcome' = [pc |-> "done",
                   result |-> getFlightStatus(apiKey, request.flightNumber,
                                              request.response, now)]
    /\ UNCHANGED <<apiKey, request>>
    /\ UNCHANGED unusedByResolver

ResolverNext == Resolve

ResolverSpec == ResolverInit /\ [][ResolverNext]_vars

\* The payload formatFlightData was given in the current state, if any.
Classified ==
    /\ outcome.pc = "done"
    /\ apiKey
    /\ request.response.kind = "data"
    /\ Len(request.response.flights) > 0
    /\ ~request.response.flights[1].isNull

Payload == request.response.flights[1]

----------------------------------------------------------------------------
(* Eligibility check: shouldMonitorFlight and isFlightInPast applied to     *)
(* every record of a bounded set, at clock 0.  Timestamps sit on each       *)
(* threshold and one 30 s unit beyond it.                                   *)

EligDepartures ==
    {Undefined, Garbage}
    \cup {DateAt(d) : d \in {30 * UnitsPerMinute,
                             MonitorHorizonDays * UnitsPerDay,
                             MonitorHorizonDays * UnitsPerDay + 1,
                             -(PastDepartureHours * UnitsPerHour),
                             -(PastDepartureHours * UnitsPerHour) - 1,
                             -(10 * UnitsPerHour)}}

EligArrivals ==
    {Undefined, Garbage}
    \cup {DateAt(-a) : a \in {PastArrivalHours * UnitsPerHour,
                              PastArrivalHours * UnitsPerHour + 1,
                              3 * UnitsPerHour,
                              LandedHours * UnitsPerHour,
                              LandedHours * UnitsPerHour + 1}}

EligScheduledArrivals ==
    {Undefined, Garbage}
    \cup {DateAt(-a) : a \in {PastScheduledHours * UnitsPerHour,
                              PastScheduledHours * UnitsPerHour + 1}}

EligLastChecked ==
    {Undefined, Garbage}
    \cup {DateAt(-a) : a \in {CancelledHours * UnitsPerHour,
                              CancelledHours * UnitsPerHour + 1,
                              30 * UnitsPerHour}}

EligDetails ==
    {NoDetails}
    \cup {[EmptyDetails EXCEPT !.actualArrival = a, !.estimatedArrival = e,
                               !.scheduledArrival = sa] :
            a \in EligArrivals, e \in EligArrivals, sa \in EligScheduledArrivals}

\* A record as the in-memory store holds it (camelCase keys) or as the
\* database returns it (snake_case keys); the other keys are absent.
Shaped(shape, dep, det, st, lc) ==
    IF shape = "memory"
      THEN [departure_time |-> Undefined, departureTime |-> dep,
            status_details |-> NoDetails, statusDetails |-> det,
            status |-> st,
            last_checked |-> Undefined, lastChecked |-> lc]
      ELSE [departure_time |-> dep, departureTime |-> Undefined,
            status_details |-> det, statusDetails |-> NoDetails,
            status |-> st,
            last_checked |-> lc, lastChecked |-> Undefined]

EligRecords ==
    {Shaped(shape, dep, det, st, lc) :
        shape \in {"memory", "database"}, dep \in EligDepartures,
        det \in EligDetails, st \in {"cancelled", "checking"},
        lc \in EligLastChecked}

unusedByElig == <<apiKey, request, outcome, flights, nextId, now, calls, sweeps, history, reply>>

EligInit ==
    /\ flight \in EligRecords
    /\ verdict = [monitor |-> Pending, past |-> Pending]
    /\ apiKey = FALSE
    /\ request = NoRequest
    /\ outcome = NotResolved
    /\ flights = <<>>
    /\ nextId = 1
    /\ now = 0
    /\ calls = {}
    /\ sweeps = <<>>
    /\ history = <<>>
    /\ reply = NoResponse

CheckMonitor ==
    /\ ~verdict.monitor.done
    /\ verdict' = [verdict EXCEPT !.monitor = shouldMonitorFlight(flight, now)]
    /\ UNCHANGED flight
    /\ UNCHANGED unusedByElig

CheckPast ==
    /\ ~verdict.past.done
    /\ verdict' = [verdict EXCEPT !.past = isFlightInPast(flight, now)]
    /\ UNCHANGED flight
    /\ UNCHANGED unusedByElig

EligNext == CheckMonitor \/ CheckPast

EligSpec == EligInit /\ [][EligNext]_vars

----------------------------------------------------------------------------
(* Mock check: getFlightStatus called repeatedly without a credential, on   *)
(* flight numbers of every table index, while the clock advances.           *)

MaxMockCalls == 2        \* calls of getFlightStatus
MaxMockTicks == 2        \* clock advances between the calls
MockTickUnits == 3       \* 30 s units per clock advance

Digits == {"0", "1", "2", "3", "4", "5", "6", "7", "8", "9"}

\* "AA0".."AA9" reach every table index; "AB0".."AB9" reach each again.
MockFlightNumbers == {<<"A", y, d>> : y \in {"A", "B"}, d \in Digits}

unusedByMock == <<request, outcome, flight, verdict, flights, nextId, calls, sweeps, reply>>

MockInit ==
    /\ apiKey = FALSE
    /\ now = 0
    /\ history = <<>>
    /\ reply = NoResponse
    /\ request = NoRequest
    /\ outcome = NotResolved
    /\ flight = NoRecord
    /\ verdict = NoRecord
    /\ flights = <<>>
    /\ nextId = 1
    /\ calls = {}
    /\ sweeps = <<>>

\* One call of getFlightStatus with no credential configured.
MockResolve ==
    \E flightNumber \in MockFlightNumbers :
      /\ Len(history) < MaxMockCalls
      /\ history' = Append(history,
                           [flightNumber |-> flightNumber, at |-> now,
                            result |-> getFlightStatus(apiKey, flightNumber,
                                                       NetworkFailure, now)])
      /\ UNCHANGED <<apiKey, now>>
      /\ UNCHANGED unusedByMock

MockTick ==
    /\ now < MaxMockTicks * MockTickUnits
    /\ now' = now + MockTickUnits
    /\ UNCHANGED <<apiKey, history>>
    /\ UNCHANGED unusedByMock

MockNext == MockResolve \/ MockTick

MockSpec == MockInit /\ [][MockNext]_vars

----------------------------------------------------------------------------
(* The server in in-memory mode: the store, flight creation, the status     *)
(* update of one flight and the periodic sweep.  src/server.js              *)

MaxFlights == 2      \* flights created
MaxSweeps == 1       \* sweeps the periodic trigger starts
MaxTicks == 1        \* clock advances
TickHours == 25      \* hours per clock advance

\* toUpperCase() of one character.
UpperChar(c) ==
    CASE c = "a" -> "A" [] c = "b" -> "B" [] c = "c" -> "C" [] OTHER -> c

\* Normalization that uppercases and keeps the whitespace.
NormalizeUpperOnly(s) == [i \in DOMAIN s |-> UpperChar(s[i])]

\* flightNumber.toUpperCase().replace(/\s/g, '')
RECURSIVE Normalize(_)
Normalize(s) ==
    IF s = <<>> THEN <<>>
    ELSE IF Head(s) = " " THEN Normalize(Tail(s))
    ELSE <<UpperChar(Head(s))>> \o Normalize(Tail(s))

\* The keys of a stored record the eligibility predicates read.
MemoryRow(f) == Shaped("memory", f.departureTime, f.statusDetails, f.status, f.lastChecked)

\* flights.find(f => f.id === flightId): its position, 0 when not found.
Position(fl, id) ==
    IF \E i \in DOMAIN fl : fl[i].id = id
      THEN CHOOSE i \in DOMAIN fl : fl[i].id = id
      ELSE 0

\* updateFlightStatus, lines 232-238: flight.status = 'checking'.
markChecking(f) == [f EXCEPT !.status = "checking"]

\* updateFlightStatus without its catch block: a failure of getFlightStatus
\* leaves the record as it is and propagates to the caller.
settleNoCatch(f, result, t) ==
    IF ~result.threw
      THEN [rethrown |-> FALSE,
            flight |-> [f EXCEPT !.status = result.status,
                                 !.statusDetails = result.details,
                                 !.lastChecked = DateAt(t),
                                 !.updatedAt = DateAt(t)]]
      ELSE [rethrown |-> TRUE, flight |-> f]

\* updateFlightStatus whose catch block stores a status outside the six kinds.
settleFailedStatus(f, result, t) ==
    IF ~result.threw
      THEN [rethrown |-> FALSE,
            flight |-> [f EXCEPT !.status = result.status,
                                 !.statusDetails = result.details,
                                 !.lastChecked = DateAt(t),
                                 !.updatedAt = DateAt(t)]]
      ELSE [rethrown |-> FALSE,
            flight |-> [f EXCEPT !.status = "failed",
                                 !.statusDetails =
                                     [EmptyDetails EXCEPT !.message = result.error],
                                 !.lastChecked = DateAt(t)]]

\* updateFlightStatus whose catch block writes the status alone.
settleStatusOnly(f, result, t) ==
    IF ~result.threw
      THEN [rethrown |-> FALSE,
            flight |-> [f EXCEPT !.status = result.status,
                                 !.statusDetails = result.details,
                                 !.lastChecked = DateAt(t),
                                 !.updatedAt = DateAt(t)]]
      ELSE [rethrown |-> FALSE, flight |-> [f EXCEPT !.status = "error"]]

\* updateFlightStatus, lines 245-278: what getFlightStatus returned is written
\* to the record; what it threw is caught and written as an `error` status.
\* `rethrown`: whether a failure reaches the caller of updateFlightStatus.
settle(f, result, t) ==
    IF ~result.threw
      THEN [rethrown |-> FALSE,
            flight |-> [f EXCEPT !.status = result.status,
                                 !.statusDetails = result.details,
                                 !.lastChecked = DateAt(t),
                                 !.updatedAt = DateAt(t)]]
      ELSE [rethrown |-> FALSE,
            flight |-> [f EXCEPT !.status = "error",
                                 !.statusDetails =
                                     [EmptyDetails EXCEPT !.message = result.error],
                                 !.lastChecked = DateAt(t)]]

\* How the provider's answer to a call is entered in a sweep's log.
AnswerClass(response) ==
    CASE response.kind = "data" /\ response.flights = <<>> -> "empty"
      [] response.kind = "data" /\ response.flights # <<>> ->
           IF response.flights[1].isNull THEN "malformed" ELSE "data"
      [] response.kind = "http" /\ response.code = 401 -> "auth"
      [] response.kind = "http" /\ response.code = 404 -> "notfound"
      [] response.kind = "http" /\ response.code = 429 -> "rate"
      [] OTHER -> "network"

\* Provider payloads of the server model, for a flight asked about at clock t:
\* a flight that has just landed on time, and a cancelled one.
LandedPayload(ident, t) ==
    [NoFlight EXCEPT !.isNull = FALSE, !.ident = ident, !.status = "Arrived",
                     !.origin = "JFK", !.destination = "LAX",
                     !.scheduled_out = DateAt(t - 5 * UnitsPerHour),
                     !.actual_out = DateAt(t - 5 * UnitsPerHour),
                     !.scheduled_in = DateAt(t), !.estimated_in = DateAt(t),
                     !.actual_in = DateAt(t)]

CancelledPayload(ident, t) ==
    [NoFlight EXCEPT !.isNull = FALSE, !.ident = ident, !.cancelled = TRUE,
                     !.status = "Cancelled", !.origin = "JFK", !.destination = "LAX",
                     !.scheduled_out = DateAt(t + UnitsPerHour)]

\* A flight whose provider record reports a delay of 45 minutes.
DelayedPayload(ident, t) ==
    [NoFlight EXCEPT !.isNull = FALSE, !.ident = ident, !.status = "Scheduled",
                     !.origin = "JFK", !.destination = "LAX",
                     !.delay_minutes = Num(45),
                     !.scheduled_out = DateAt(t + UnitsPerHour)]

ServerAnswers(ident, t) ==
    {DataAnswer(<<LandedPayload(ident, t)>>), DataAnswer(<<CancelledPayload(ident, t)>>),
     DataAnswer(<<DelayedPayload(ident, t)>>),
     DataAnswer(<<NoFlight>>), NetworkFailure,
     HttpAnswer(401), HttpAnswer(404), HttpAnswer(429)}

\* An updateFlightStatus invocation awaiting the provider: the flight id, the
\* flight number it passed to getFlightStatus, and who awaits it.
Call(id, number, by, k) == [id |-> id, flightNumber |-> number, by |-> by, sweep |-> k]

\* updateFlightStatus(id) from its start to its first suspension, on store fl
\* at clock t.  Without a credential getFlightStatus answers without any I/O
\* and the whole update runs before any other handler.  `issued`: the provider
\* calls now in flight; `answer`: the log entry of the update.
beginUpdate(fl, id, by, k, t) ==
    LET pos == Position(fl, id)
    IN  IF pos = 0
          THEN [flights |-> fl, issued |-> {}, answer |-> "missing", rethrown |-> FALSE]
        ELSE IF apiKey
          THEN [flights |-> [fl EXCEPT ![pos] = markChecking(@)],
                issued |-> {Call(id, fl[pos].flightNumber, by, k)},
                answer |-> "pending", rethrown |-> FALSE]
        ELSE LET done == settle(markChecking(fl[pos]),
                                getFlightStatus(apiKey, fl[pos].flightNumber,
                                                NetworkFailure, t), t)
             IN  [flights |-> [fl EXCEPT ![pos] = done.flight],
                  issued |-> {}, answer |-> "mock", rethrown |-> done.rethrown]

\* The loop body with updateFlightStatus called but not awaited: the loop goes
\* to its pause while the provider call is in flight.
iterateNoAwait(fl, s, k, t) ==
    IF s.next > Len(s.work)
      THEN [flights |-> fl, issued |-> {}, sweep |-> [s EXCEPT !.pc = "done"]]
      ELSE LET id == s.work[s.next]
               begun == beginUpdate(fl, id, "sweep", k, t)
               entry == [id |-> id, answer |-> begun.answer]
           IN  [flights |-> begun.flights,
                issued |-> begun.issued,
                sweep |-> [s EXCEPT !.log = Append(@, entry), !.pc = "pausing"]]

\* One iteration of the loop of updateAllFlights for sweep s, numbered k, up
\* to its next suspension: in the provider call, or in the 1 s pause.
iterate(fl, s, k, t) ==
    IF s.next > Len(s.work)
      THEN [flights |-> fl, issued |-> {}, sweep |-> [s EXCEPT !.pc = "done"]]
      ELSE LET id == s.work[s.next]
               begun == beginUpdate(fl, id, "sweep", k, t)
               entry == [id |-> id, answer |-> begun.answer]
           IN  [flights |-> begun.flights,
                issued |-> begun.issued,
                sweep |-> [s EXCEPT !.log = Append(@, entry),
                                    !.pc = IF begun.issued # {} THEN "resolving"
                                           ELSE IF begun.rethrown THEN "failed"
                                           ELSE "pausing"]]

\* allFlights.filter(flight => shouldMonitorFlight(flight)), as ids in order.
RECURSIVE activeFlights(_, _)
activeFlights(fl, t) ==
    IF fl = <<>> THEN <<>>
    ELSE LET keep == shouldMonitorFlight(MemoryRow(Head(fl)), t)
         IN  (IF keep.value /\ ~keep.raised THEN <<Head(fl).id>> ELSE <<>>)
             \o activeFlights(Tail(fl), t)

RawFlightNumbers == {<<"A", "A", "1", "1">>, <<"a", "b", " ", "1">>}

unusedByServer == <<request, outcome, flight, verdict, history, reply>>

Init ==
    /\ apiKey \in BOOLEAN
    /\ flights = <<>>
    /\ nextId = 1
    /\ now = 0
    /\ calls = {}
    /\ sweeps = <<>>
    /\ history = <<>>
    /\ reply = NoResponse
    /\ request = NoRequest
    /\ outcome = NotResolved
    /\ flight = NoRecord
    /\ verdict = NoRecord

\* An id taken from the length of the store instead of the counter.
newIdFromLength(fl, next) == Len(fl) + 1

\* id: nextId++
newId(fl, next) == next

\* The record POST /api/flights and the spreadsheet import build, lines 509-521
\* and 770-782.
NewFlight(id, number, departure, t) ==
    [id |-> id,
     employeeName |-> "Ann",
     flightNumber |-> Normalize(number),
     departureTime |-> OrElse(departure, DateAt(t)),
     origin |-> NoString,
     destination |-> NoString,
     status |-> "checking",
     statusDetails |-> EmptyDetails,
     lastChecked |-> Undefined,
     createdAt |-> DateAt(t),
     updatedAt |-> DateAt(t)]

\* The body of POST /api/flights; NoString and <<>> are fields that are
\* absent or empty.
CreateBody(employeeName, flightNumber, departureTime) ==
    [employeeName |-> employeeName, flightNumber |-> flightNumber,
     departureTime |-> departureTime]

\* The handler validating the employee name only.
postFlightNameOnly(body, fl, next, t) ==
    IF body.employeeName = NoString
      THEN [status |-> 400, success |-> FALSE, flights |-> fl, nextId |-> next,
            issued |-> {}]
      ELSE LET newFlight == NewFlight(newId(fl, next), body.flightNumber,
                                      body.departureTime, t)
               begun == beginUpdate(Append(fl, newFlight), newFlight.id, "create", 0, t)
           IN  [status |-> 201, success |-> TRUE, flights |-> begun.flights,
                nextId |-> next + 1, issued |-> begun.issued]

\* The handler of POST /api/flights, in-memory branch, on store fl with
\* counter next: a body lacking a required field is answered 400 before
\* anything is built; otherwise the record is stored and its first status
\* update is started without being awaited.
postFlight(body, fl, next, t) ==
    IF body.employeeName = NoString \/ body.flightNumber = <<>>
      THEN [status |-> 400, success |-> FALSE, flights |-> fl, nextId |-> next,
            issued |-> {}]
      ELSE LET newFlight == NewFlight(newId(fl, next), body.flightNumber,
                                      body.departureTime, t)
               begun == beginUpdate(Append(fl, newFlight), newFlight.id, "create", 0, t)
           IN  [status |-> 201, success |-> TRUE, flights |-> begun.flights,
                nextId |-> next + 1, issued |-> begun.issued]

\* POST /api/flights with a valid body whose flightNumber is drawn from
\* `numbers` and whose departureTime from `departures`: the record is stored and its first status update is started
\* without being awaited.
createFlight(numbers, departures) ==
    \E number \in numbers, departure \in departures :
      /\ nextId <= MaxFlights
      /\ LET posted == postFlight(CreateBody("Ann", number, departure),
                                  flights, nextId, now)
         IN  /\ flights' = posted.flights
             /\ calls' = calls \cup posted.issued
             /\ nextId' = posted.nextId
      /\ UNCHANGED <<apiKey, now, sweeps>>
      /\ UNCHANGED unusedByServer

CreateFlight == createFlight(RawFlightNumbers, {Undefined, DateAt(now + 8 * UnitsPerDay)})

\* updateFlightStatus after its await with the removed record put back into
\* the store by the write.
resumeUpdateUpsert(c, response, fl, sw, t) ==
    LET pos == Position(fl, c.id)
        result == getFlightStatus(apiKey, c.flightNumber, response, t)
        found == IF pos = 0
                   THEN markChecking(NewFlight(c.id, c.flightNumber, Undefined, t))
                   ELSE fl[pos]
        done == settle(found, result, t)
    IN  [flights |-> IF pos = 0 THEN Append(fl, done.flight)
                     ELSE [fl EXCEPT ![pos] = done.flight],
         sweeps |-> IF c.by = "sweep"
                      THEN [sw EXCEPT ![c.sweep] =
                              [@ EXCEPT !.pc = IF done.rethrown THEN "failed"
                                               ELSE "pausing",
                                        !.log[Len(@.log)].answer =
                                            AnswerClass(response)]]
                      ELSE sw,
         stored |-> pos # 0,
         result |-> result]

\* updateFlightStatus from its await to its end, on store fl and loops sw at
\* clock t, when the provider gives `response` to call c: the outcome is
\* written to the record found before the await; a loop awaiting the update
\* resumes at its pause.  `stored`: whether the record is still in the store;
\* `result`: what getFlightStatus returned or threw.
resumeUpdate(c, response, fl, sw, t) ==
    LET pos == Position(fl, c.id)
        result == getFlightStatus(apiKey, c.flightNumber, response, t)
        \* a record removed meanwhile is still written to, outside the store
        done == IF pos = 0 THEN [rethrown |-> FALSE] ELSE settle(fl[pos], result, t)
    IN  [flights |-> IF pos = 0 THEN fl ELSE [fl EXCEPT ![pos] = done.flight],
         sweeps |-> IF c.by = "sweep"
                      THEN [sw EXCEPT ![c.sweep] =
                              [@ EXCEPT !.pc = IF done.rethrown THEN "failed"
                                               ELSE "pausing",
                                        !.log[Len(@.log)].answer =
                                            AnswerClass(response)]]
                      ELSE sw,
         stored |-> pos # 0,
         result |-> result]

\* The provider answers a call in flight.
providerAnswers(c, response) ==
    LET resumed == resumeUpdate(c, response, flights, sweeps, now)
    IN  /\ flights' = resumed.flights
        /\ calls' = calls \ {c}
        /\ sweeps' = resumed.sweeps
        /\ UNCHANGED <<apiKey, nextId, now>>
        /\ UNCHANGED unusedByServer

ProviderAnswers ==
    \E c \in calls :
      \E response \in ServerAnswers(c.flightNumber, now) : providerAnswers(c, response)

\* The sweeps started by the periodic trigger.
CronSweeps == {k \in DOMAIN sweeps : sweeps[k].by = "cron"}

\* The periodic trigger calls updateAllFlights, at most `limit` times: the
\* work list is built and the first flight's update begins.  The trigger does
\* not look at the sweeps still running.
startSweep(limit) ==
    /\ Cardinality(CronSweeps) < limit
    /\ LET k == Len(sweeps) + 1
           started == [by |-> "cron", pc |-> "loop",
                       work |-> activeFlights(flights, now),
                       next |-> 1, log |-> <<>>]
           step == iterate(flights, started, k, now)
       IN  /\ flights' = step.flights
           /\ calls' = calls \cup step.issued
           /\ sweeps' = Append(sweeps, step.sweep)
    /\ UNCHANGED <<apiKey, nextId, now>>
    /\ UNCHANGED unusedByServer

StartSweep == startSweep(MaxSweeps)

\* The 1 s pause of a sweep elapses: the loop takes the next flight.
pauseElapsed(k) ==
    /\ k \in DOMAIN sweeps
    /\ sweeps[k].pc = "pausing"
    /\ LET step == iterate(flights, [sweeps[k] EXCEPT !.next = @ + 1], k, now)
       IN  /\ flights' = step.flights
           /\ calls' = calls \cup step.issued
           /\ sweeps' = [sweeps EXCEPT ![k] = step.sweep]
    /\ UNCHANGED <<apiKey, nextId, now>>
    /\ UNCHANGED unusedByServer

PauseElapsed == \E k \in DOMAIN sweeps : pauseElapsed(k)

\* A long time passes.  A provider call ends within its 10 s timeout and a
\* pause lasts 1 s, so the clock jumps only while nothing is awaited.
Tick ==
    /\ now < MaxTicks * TickHours * UnitsPerHour
    /\ calls = {}
    /\ \A k \in DOMAIN sweeps : sweeps[k].pc \in {"done", "failed"}
    /\ now' = now + TickHours * UnitsPerHour
    /\ UNCHANGED <<apiKey, flights, nextId, calls, sweeps>>
    /\ UNCHANGED unusedByServer

Next == CreateFlight \/ ProviderAnswers \/ StartSweep \/ PauseElapsed \/ Tick

Spec == Init /\ [][Next]_vars

----------------------------------------------------------------------------
(* The store under every handler that changes it: create, spreadsheet       *)
(* import, edit, delete, refresh, retention cleanup and the periodic sweep, *)
(* with the provider answering each call with a flight or not at all.       *)

MaxCronRuns == 2       \* sweeps the periodic trigger starts, in CronSpec
MaxImports == 1        \* spreadsheets imported
MaxInFlight == 1       \* provider calls a handler may leave awaited

RetentionHours == 48

\* The filter of cleanupOldFlights: whether the record stays, at clock t.
\* A departureTime no Date can parse gives NaN < 48, which is false.
keepFlight(f, t) ==
    \/ ~Truthy(f.departureTime)
    \/ LessThan(DateDiff(NewDate(DateAt(t)), NewDate(f.departureTime)),
                RetentionHours * UnitsPerHour)

\* cleanupOldFlights, in-memory branch: flights.filter(...)
cleanupOldFlights(fl, t) == SelectSeq(fl, LAMBDA f : keepFlight(f, t))

\* departureTime values a client sends: none, a string no Date can parse, and
\* dates on the retention threshold and one 30 s unit beyond it.
StoreDepartures(t) ==
    {Undefined, Garbage,
     DateAt(t - RetentionHours * UnitsPerHour),
     DateAt(t - RetentionHours * UnitsPerHour - 1)}

\* Spreadsheet rows: the 'Flight Number' and 'Departure Time' cells; <<>> is
\* an empty flight-number cell.
ImportRow(number, departure) == [number |-> number, departure |-> departure]

ImportFiles ==
    {<<ImportRow(<<"a", "b", " ", "1">>, Undefined)>>,
     <<ImportRow(<<>>, Undefined), ImportRow(<<"A", "A", "1", "1">>, DateAt(0))>>,
     <<ImportRow(<<"a", "b", " ", "1">>, Garbage), ImportRow(<<"A", "A", "1", "1">>, Undefined)>>}

\* The row loop of POST /api/flights/upload, lines 741-790, on store fl with
\* counter next: a row without flight number is skipped; a row whose
\* departure time cannot be parsed throws in toISOString() after nextId++
\* was evaluated, and is skipped with its id consumed.
RECURSIVE importRowsAbortOnError(_, _, _, _, _, _)
importRowsAbortOnError(rows, fl, next, added, errors, t) ==
    IF rows = <<>>
      THEN [flights |-> fl, nextId |-> next, added |-> added, errors |-> errors]
    ELSE LET row == Head(rows)
         IN  IF row.number = <<>>
               THEN [flights |-> fl, nextId |-> next, added |-> added,
                     errors |-> errors + 1]
             ELSE IF Truthy(row.departure) /\ NewDate(row.departure).nan
               THEN [flights |-> fl, nextId |-> next + 1, added |-> added,
                     errors |-> errors + 1]
             ELSE LET newFlight == NewFlight(newId(fl, next), row.number, row.departure, t)
                  IN  importRowsAbortOnError(Tail(rows), Append(fl, newFlight), next + 1,
                                             Append(added, newFlight.id), errors, t)

RECURSIVE importRows(_, _, _, _, _, _)
importRows(rows, fl, next, added, errors, t) ==
    IF rows = <<>>
      THEN [flights |-> fl, nextId |-> next, added |-> added, errors |-> errors]
    ELSE LET row == Head(rows)
         IN  IF row.number = <<>>
               THEN importRows(Tail(rows), fl, next, added, errors + 1, t)
             ELSE IF Truthy(row.departure) /\ NewDate(row.departure).nan
               THEN importRows(Tail(rows), fl, next + 1, added, errors + 1, t)
             ELSE LET newFlight == NewFlight(newId(fl, next), row.number, row.departure, t)
                  IN  importRows(Tail(rows), Append(fl, newFlight), next + 1,
                                 Append(added, newFlight.id), errors, t)

\* POST /api/flights/upload on store fl with counter next, the loops sw and
\* the calls in flight: the rows are stored, and the status updates of the
\* added flights are started in a background loop, 1 s apart.
uploadFlights(file, fl, next, sw, t) ==
    LET imported == importRows(file, fl, next, <<>>, 0, t)
        k == Len(sw) + 1
        started == [by |-> "upload", pc |-> "loop", work |-> imported.added,
                    next |-> 1, log |-> <<>>]
        step == iterate(imported.flights, started, k, t)
    IN  [status |-> 200, success |-> TRUE,
         added |-> Len(imported.added), errors |-> imported.errors,
         flights |-> step.flights, nextId |-> imported.nextId,
         issued |-> step.issued, sweeps |-> Append(sw, step.sweep)]

\* The loops started by spreadsheet imports.
UploadLoops == {k \in DOMAIN sweeps : sweeps[k].by = "upload"}

\* The provider's answers in this model: a flight that landed on time, or
\* no answer.
StoreAnswers(ident, t) == {DataAnswer(<<LandedPayload(ident, t)>>), NetworkFailure}

\* POST /api/flights, while fewer than MaxInFlight provider calls are awaited.
AddFlight ==
    /\ createFlight({<<"a", "b", " ", "1">>}, StoreDepartures(now))
    /\ Cardinality(calls') <= MaxInFlight

\* POST /api/flights/upload with one of `files`, while fewer than MaxInFlight
\* provider calls are awaited.
importFlights(files) ==
    \E file \in files :
      \E uploaded \in {uploadFlights(file, flights, nextId, sweeps, now)} :
          /\ Cardinality(UploadLoops) < MaxImports
          /\ uploaded.nextId <= MaxFlights + 1
          /\ Cardinality(calls \cup uploaded.issued) <= MaxInFlight
          /\ flights' = uploaded.flights
          /\ nextId' = uploaded.nextId
          /\ calls' = calls \cup uploaded.issued
          /\ sweeps' = uploaded.sweeps
          /\ UNCHANGED <<apiKey, now>>
          /\ UNCHANGED unusedByServer

ImportFlights == importFlights(ImportFiles)

\* Bodies of PUT /api/flights/:id: a new flight number, or a new departure
\* time.
EditBodies == {ImportRow(<<"A", "a", "1", " ">>, Undefined), ImportRow(<<>>, DateAt(0))}

\* PUT /api/flights/:id, in-memory branch: the fields the body gives are
\* written; a given flight number is normalized and the status refreshed.
EditFlight ==
    \E id \in 1..MaxFlights, body \in EditBodies :
      LET pos == Position(flights, id)
          number == body.number
          departure == body.departure
      IN  /\ pos # 0
          /\ LET edited == [flights[pos] EXCEPT
                              !.flightNumber = IF number # <<>> THEN Normalize(number) ELSE @,
                              !.departureTime = OrElse(departure, @),
                              !.updatedAt = DateAt(now)]
                 written == [flights EXCEPT ![pos] = edited]
                 begun == IF number # <<>>
                            THEN beginUpdate(written, id, "edit", 0, now)
                            ELSE [flights |-> written, issued |-> {}]
             IN  /\ Cardinality(calls \cup begun.issued) <= MaxInFlight
                 /\ flights' = begun.flights
                 /\ calls' = calls \cup begun.issued
          /\ UNCHANGED <<apiKey, nextId, now, sweeps>>
          /\ UNCHANGED unusedByServer

\* DELETE /api/flights/:id, in-memory branch: flights.splice(index, 1)
DeleteFlight ==
    \E id \in 1..MaxFlights :
      LET pos == Position(flights, id)
      IN  /\ pos # 0
          /\ flights' = SubSeq(flights, 1, pos - 1) \o SubSeq(flights, pos + 1, Len(flights))
          /\ UNCHANGED <<apiKey, nextId, now, calls, sweeps>>
          /\ UNCHANGED unusedByServer

\* POST /api/flights/:id/refresh up to the await of the provider, while at
\* most `limit` provider calls are awaited and no other refresh of the flight
\* is.
refreshFlight(limit) ==
    \E id \in 1..MaxFlights :
      LET begun == beginUpdate(flights, id, "refresh", 0, now)
      IN  /\ Position(flights, id) # 0
          /\ begun.issued \cap calls = {}
          /\ Cardinality(calls \cup begun.issued) <= limit
          /\ flights' = begun.flights
          /\ calls' = calls \cup begun.issued
          /\ UNCHANGED <<apiKey, nextId, now, sweeps>>
          /\ UNCHANGED unusedByServer

RefreshFlight == refreshFlight(MaxInFlight)

\* The hourly trigger calls cleanupOldFlights.
CleanupOldFlights ==
    /\ flights' = cleanupOldFlights(flights, now)
    /\ UNCHANGED <<apiKey, nextId, now, calls, sweeps>>
    /\ UNCHANGED unusedByServer

\* The periodic trigger, while fewer than MaxInFlight provider calls are awaited.
StoreSweep ==
    /\ startSweep(MaxSweeps)
    /\ Cardinality(calls') <= MaxInFlight

StoreProviderAnswers ==
    \E c \in calls :
      \E response \in StoreAnswers(c.flightNumber, now) : providerAnswers(c, response)

StoreNext ==
    \/ AddFlight
    \/ ImportFlights
    \/ EditFlight
    \/ DeleteFlight
    \/ RefreshFlight
    \/ CleanupOldFlights
    \/ StoreSweep
    \/ StoreProviderAnswers
    \/ PauseElapsed

StoreSpec == Init /\ [][StoreNext]_vars

----------------------------------------------------------------------------
(* The periodic trigger firing repeatedly on a store that create fills.     *)

\* The trigger fires every 5 minutes whether or not the sweep it started
\* before has finished.  A sweep lasts up to 11 s per flight of its work list
\* (10 s provider timeout, 1 s pause), so on a long work list it is still
\* running at the next firing; the short work lists here stand for such a list.
CronSweep == startSweep(MaxCronRuns)

CronNext == CreateFlight \/ CronSweep \/ StoreProviderAnswers \/ PauseElapsed

CronSpec == Init /\ [][CronNext]_vars

----------------------------------------------------------------------------
(* Parse check: a raw flight number is normalized as POST /api/flights      *)
(* stores it and parsed by parseFlightNumber.                               *)

MaxParseLen == 5      \* raw flight numbers of up to this many characters

Uppercase == {"A", "B", "C"}
Letters == Uppercase \cup {"a", "b", "c"}

\* s.replace(/\s/g, '')
RECURSIVE StripWhitespace(_)
StripWhitespace(s) ==
    IF s = <<>> THEN <<>>
    ELSE IF Head(s) = " " THEN StripWhitespace(Tail(s))
    ELSE <<Head(s)>> \o StripWhitespace(Tail(s))

\* s.toUpperCase()
ToUpperCase(s) == [i \in DOMAIN s |-> UpperChar(s[i])]

\* s.substring(from): the characters after the first `from`.
Substring(s, from) ==
    IF from >= Len(s) THEN <<>> ELSE SubSeq(s, from + 1, Len(s))

\* cleaned.match(/^([A-Z]{2,3})(\d+)$/): the length of group 1, 0 when there
\* is no match.  The greedy group is tried with 3 letters, then with 2.
MatchAirline(cleaned) ==
    LET fits(n) == /\ Len(cleaned) > n
                   /\ \A i \in 1..n : cleaned[i] \in Uppercase
                   /\ \A i \in (n + 1)..Len(cleaned) : cleaned[i] \in Digits
    IN  IF fits(3) THEN 3 ELSE IF fits(2) THEN 2 ELSE 0

\* parseFlightNumber without its pattern: always the two-character split.
parseFlightNumberSplitOnly(flightNumber) ==
    LET cleaned == ToUpperCase(StripWhitespace(flightNumber))
    IN  [airline |-> SubSeq(cleaned, 1, IF Len(cleaned) < 2 THEN Len(cleaned) ELSE 2),
         number |-> Substring(cleaned, 2),
         full |-> cleaned]

\* parseFlightNumber whose fallback takes the number from the fourth character.
parseFlightNumberSkipThird(flightNumber) ==
    LET cleaned == ToUpperCase(StripWhitespace(flightNumber))
        match == MatchAirline(cleaned)
    IN  IF match > 0
          THEN [airline |-> SubSeq(cleaned, 1, match),
                number |-> Substring(cleaned, match),
                full |-> cleaned]
          ELSE [airline |-> SubSeq(cleaned, 1, IF Len(cleaned) < 2 THEN Len(cleaned) ELSE 2),
                number |-> Substring(cleaned, 3),
                full |-> cleaned]

\* parseFlightNumber(flightNumber)
parseFlightNumber(flightNumber) ==
    LET cleaned == ToUpperCase(StripWhitespace(flightNumber))
        match == MatchAirline(cleaned)
    IN  IF match > 0
          THEN [airline |-> SubSeq(cleaned, 1, match),
                number |-> Substring(cleaned, match),
                full |-> cleaned]
          ELSE [airline |-> SubSeq(cleaned, 1, IF Len(cleaned) < 2 THEN Len(cleaned) ELSE 2),
                number |-> Substring(cleaned, 2),
                full |-> cleaned]

\* getFlightStatus, line 37: `${parsedFlight.airline}${parsedFlight.number}`
Ident(flightNumber) ==
    LET parsedFlight == parseFlightNumber(flightNumber)
    IN  parsedFlight.airline \o parsedFlight.number

ParseAlphabet == {"a", "A", "b", " ", "1", "2"}

ParseInputs ==
    UNION {[1..n -> ParseAlphabet] : n \in 0..MaxParseLen}
    \cup {<<"a", "a", " ", "1", "2", "3", "4">>}

unusedByParse == <<apiKey, outcome, flight, verdict, flights, nextId, now, calls, sweeps, reply>>

ParseInit ==
    /\ request \in [flightNumber : ParseInputs, response : {NetworkFailure}]
    /\ history = <<>>
    /\ reply = NoResponse
    /\ apiKey = FALSE
    /\ outcome = NotResolved
    /\ flight = NoRecord
    /\ verdict = NoRecord
    /\ flights = <<>>
    /\ nextId = 1
    /\ now = 0
    /\ calls = {}
    /\ sweeps = <<>>

\* The raw flight number is normalized as the store keeps it; the raw form,
\* the stored form and the `full` output are parsed, and the provider ident
\* of the stored form is built.
ParseNumber ==
    /\ history = <<>>
    /\ LET stored == Normalize(request.flightNumber)
       IN  history' = <<[raw |-> request.flightNumber,
                         stored |-> stored,
                         parsedRaw |-> parseFlightNumber(request.flightNumber),
                         parsedStored |-> parseFlightNumber(stored),
                         reparsed |-> parseFlightNumber(
                                          parseFlightNumber(request.flightNumber).full),
                         ident |-> Ident(stored)]>>
    /\ UNCHANGED request
    /\ UNCHANGED unusedByParse

ParseNext == ParseNumber

ParseSpec == ParseInit /\ [][ParseNext]_vars

----------------------------------------------------------------------------
(* The periodic trigger firing at its interval, every time, for more than a *)
(* day, on flights created at the start; no credential is configured, so    *)
(* each resolution is the mock's and completes at once.                     *)

CronIntervalMinutes == 5
MaxPollHours == 25       \* the clock runs up to this many hours

CronInterval == CronIntervalMinutes * UnitsPerMinute

\* "AA0" is cancelled in the mock table, "AA2" on-time.
PollFlightNumbers == {<<"A", "A", "0">>, <<"A", "A", "2">>}

PollInit == Init /\ ~apiKey

PollCreate ==
    /\ now = 0
    /\ createFlight(PollFlightNumbers, {Undefined})

\* The next firing of the trigger comes due, once the sweep of the last
\* firing has been started and has finished.
IntervalElapses ==
    /\ now < MaxPollHours * UnitsPerHour
    /\ Cardinality(CronSweeps) = now \div CronInterval
    /\ \A k \in DOMAIN sweeps : sweeps[k].pc \in {"done", "failed"}
    /\ now' = now + CronInterval
    /\ UNCHANGED <<apiKey, flights, nextId, calls, sweeps>>
    /\ UNCHANGED unusedByServer

\* The trigger fires: one sweep per interval elapsed.
PollSweep == startSweep(now \div CronInterval)

PollNext == PollCreate \/ IntervalElapses \/ PollSweep \/ PauseElapsed

PollSpec == PollInit /\ [][PollNext]_vars

----------------------------------------------------------------------------
(* Claims about the resolver, checked under ResolverSpec.                   *)

\* The six classification rules of the specification, in order, as
\* conditions on a payload p.
C1_Rules(p) ==
    <<p.cancelled,
      p.status = "Cancelled",
      p.status = "Diverted",
      p.delay_minutes.kind = "number" /\ p.delay_minutes.t > 15,
      /\ p.scheduled_out.kind = "date"
      /\ p.actual_out.kind = "date"
      /\ p.actual_out.t - p.scheduled_out.t > 15 * UnitsPerMinute,
      TRUE>>

C1_FirstRule(p) ==
    CHOOSE i \in 1..6 : C1_Rules(p)[i] /\ \A j \in 1..(i - 1) : ~C1_Rules(p)[j]

C1_RuleStatus == <<"cancelled", "cancelled", "delayed", "delayed", "delayed", "on-time">>

\* C1: formatFlightData classifies a provider payload by the first matching
\* rule, in the order cancelled flag, status 'Cancelled', status 'Diverted',
\* delay_minutes > 15, actual minus scheduled departure > 15 minutes (with the
\* delay rounded to the nearest minute), otherwise on-time; a payload with
\* cancelled = true and delay_minutes = 120 is cancelled.
C1_FirstMatchWins ==
    Classified =>
      LET rule == C1_FirstRule(Payload)
          lag == Payload.actual_out.t - Payload.scheduled_out.t
          res == outcome.result
      IN  /\ ~res.threw
          /\ res.status = C1_RuleStatus[rule]
          /\ rule = 5 =>
               \E m \in 0..lag : /\ 2 * m - 1 <= lag
                                 /\ lag < 2 * m + 1
                                 /\ res.details.delayMinutes = Num(m)
          /\ (Payload.cancelled /\ Payload.delay_minutes = Num(120)) =>
               res.status = "cancelled"

C1_Witness ==
    /\ Classified
    /\ Payload.cancelled
    /\ Payload.delay_minutes = Num(120)
    /\ outcome.result.status = "cancelled"

\* C2: for a payload neither cancelled nor diverted, a delay of exactly 15
\* minutes (reported, or computed from the departure times) is on-time and a
\* delay of 16 minutes is delayed.
C2_StrictThreshold ==
    (/\ Classified
     /\ ~Payload.cancelled
     /\ Payload.status \notin {"Cancelled", "Diverted"}) =>
      LET reported == Payload.delay_minutes
          computed == /\ Payload.scheduled_out.kind = "date"
                      /\ Payload.actual_out.kind = "date"
          lag == Payload.actual_out.t - Payload.scheduled_out.t
          st == outcome.result.status
      IN  /\ reported = Num(16) => st = "delayed"
          /\ (computed /\ lag = 16 * UnitsPerMinute) => st = "delayed"
          /\ (reported = Num(15) /\ ~(computed /\ lag > 15 * UnitsPerMinute)) =>
               st = "on-time"
          /\ (/\ computed
              /\ lag = 15 * UnitsPerMinute
              /\ ~(reported.kind = "number" /\ reported.t > 15)) => st = "on-time"

C2_Witness ==
    /\ Classified
    /\ ~Payload.cancelled
    /\ Payload.status = "Scheduled"
    /\ Payload.delay_minutes = Num(15)
    /\ Payload.scheduled_out = DateAt(0)
    /\ Payload.actual_out = DateAt(15 * UnitsPerMinute)
    /\ outcome.result.status = "on-time"

\* C6: with a credential configured, an empty flight list and an HTTP 404 both
\* give a returned status `unknown` (nothing is thrown), with the flight number
\* asked for and an explanatory message in the details.
C6_NotFoundIsUnknown ==
    (/\ outcome.pc = "done"
     /\ apiKey
     /\ request.response \in {DataAnswer(<<>>), HttpAnswer(404)}) =>
      /\ ~outcome.result.threw
      /\ outcome.result.status = "unknown"
      /\ outcome.result.details.flightNumber = request.flightNumber
      /\ outcome.result.details.message # <<>>

C6_Witness ==
    /\ outcome.pc = "done"
    /\ apiKey
    /\ request.response = HttpAnswer(404)
    /\ outcome.result.status = "unknown"
    /\ outcome.result.details.flightNumber = <<"A", "B", "1", "2">>

----------------------------------------------------------------------------
(* Claims about the eligibility predicates, checked under EligSpec.         *)

\* The value of a field of the examined record under either key.
FieldOf(snake, camel) == IF snake.kind # "undefined" THEN snake ELSE camel

RecDeparture == FieldOf(flight.departure_time, flight.departureTime)
RecLastChecked == FieldOf(flight.last_checked, flight.lastChecked)
RecDetails == FieldOf(flight.status_details, flight.statusDetails)

\* Timestamp v is a date more than h hours before the clock.
OlderThan(v, h) == v.kind = "date" /\ now - v.t > h * UnitsPerHour

WithoutField(f, key) ==
    CASE key = "departureTime" ->
           [f EXCEPT !.departure_time = Undefined, !.departureTime = Undefined]
      [] key = "lastChecked" ->
           [f EXCEPT !.last_checked = Undefined, !.lastChecked = Undefined]
      [] key = "actualArrival" ->
           [f EXCEPT !.status_details.actualArrival = Undefined,
                     !.statusDetails.actualArrival = Undefined]
      [] key = "estimatedArrival" ->
           [f EXCEPT !.status_details.estimatedArrival = Undefined,
                     !.statusDetails.estimatedArrival = Undefined]
      [] key = "scheduledArrival" ->
           [f EXCEPT !.status_details.scheduledArrival = Undefined,
                     !.statusDetails.scheduledArrival = Undefined]

FieldValue(key) ==
    CASE key = "departureTime" -> RecDeparture
      [] key = "lastChecked" -> RecLastChecked
      [] key = "actualArrival" -> RecDetails.actualArrival
      [] key = "estimatedArrival" -> RecDetails.estimatedArrival
      [] key = "scheduledArrival" -> RecDetails.scheduledArrival

TimestampKeys ==
    {"departureTime", "lastChecked", "actualArrival", "estimatedArrival",
     "scheduledArrival"}

\* C9: in shouldMonitorFlight and isFlightInPast an unparseable timestamp is
\* treated as if the field were absent: the result is the one for the record
\* without that field, and nothing is raised.
C9_UnparseableIsAbsent ==
    \A key \in TimestampKeys :
      FieldValue(key) = Garbage =>
        /\ verdict.monitor.done =>
             verdict.monitor = shouldMonitorFlight(WithoutField(flight, key), now)
        /\ verdict.past.done =>
             verdict.past = isFlightInPast(WithoutField(flight, key), now)

\* C10: shouldMonitorFlight and isFlightInPast return a boolean and raise
\* nothing, whatever optional fields are missing; a record departing 30 minutes
\* from now, without status details and never checked, is monitored and not
\* past.
C10_NeverRaises ==
    /\ verdict.monitor.done => ~verdict.monitor.raised
    /\ verdict.past.done => ~verdict.past.raised
    /\ (/\ RecDeparture = DateAt(now + 30 * UnitsPerMinute)
        /\ RecDetails = NoDetails
        /\ RecLastChecked = Undefined) =>
         /\ verdict.monitor.done => verdict.monitor.value = TRUE
         /\ verdict.past.done => verdict.past.value = FALSE

C10_Witness ==
    /\ RecDeparture = DateAt(now + 30 * UnitsPerMinute)
    /\ flight.statusDetails = NoDetails
    /\ flight.status_details = NoDetails
    /\ RecLastChecked = Undefined
    /\ verdict.monitor = Value(TRUE)
    /\ verdict.past = Value(FALSE)

\* C11: the two predicates are computed independently and can disagree: for a
\* record with actual arrival 3 hours before now and departure 10 hours
\* before now, isFlightInPast is true, while shouldMonitorFlight is true
\* unless another of its rules applies (an estimated arrival more than 6
\* hours old, or a cancelled status last checked more than 24 hours ago).
C11_PredicatesDisagree ==
    (/\ RecDetails.actualArrival = DateAt(now - 3 * UnitsPerHour)
     /\ RecDeparture = DateAt(now - 10 * UnitsPerHour)) =>
      /\ verdict.past.done => verdict.past = Value(TRUE)
      /\ verdict.monitor.done =>
           verdict.monitor =
             Value(~(\/ OlderThan(RecDetails.estimatedArrival, 6)
                     \/ flight.status = "cancelled" /\ OlderThan(RecLastChecked, 24)))

\* Such a record was given both verdicts, and they disagree.
C11_Witness ==
    /\ RecDetails.actualArrival = DateAt(now - 3 * UnitsPerHour)
    /\ RecDeparture = DateAt(now - 10 * UnitsPerHour)
    /\ RecDetails.estimatedArrival = Undefined
    /\ flight.status = "checking"
    /\ verdict.past = Value(TRUE)
    /\ verdict.monitor = Value(TRUE)

----------------------------------------------------------------------------
(* Claims about the mock resolver, checked under MockSpec.                  *)

\* The table index of the i-th call: the character-code sum modulo 10.
MockIndex(i) == SumCodes(history[i].flightNumber) % 10

MockStatus(i) == history[i].result.status
MockDelay(i) == history[i].result.details.delayMinutes

\* C12: with no credential configured, two calls of getFlightStatus with the
\* same flight number, made at any two times, return the same status and the
\* same delayMinutes.
C12_MockDeterministic ==
    \A i, j \in DOMAIN history :
      history[i].flightNumber = history[j].flightNumber =>
        /\ ~history[i].result.threw /\ ~history[j].result.threw
        /\ MockStatus(i) = MockStatus(j)
        /\ MockDelay(i) = MockDelay(j)

\* The same delayed flight number was resolved at two different times.
C12_Witness ==
    /\ Len(history) = 2
    /\ history[1].flightNumber = history[2].flightNumber
    /\ history[1].at # history[2].at
    /\ MockStatus(2) = "delayed"
    /\ history[1].result.details.scheduledDeparture #
         history[2].result.details.scheduledDeparture

\* C13: in mock mode a flight number whose character-code sum modulo 10 is 0
\* yields on-time with delayMinutes 0, and one whose sum modulo 10 is 8
\* yields cancelled.
C13_MockIndexZeroAndEight ==
    \A i \in DOMAIN history :
      /\ MockIndex(i) = 0 => MockStatus(i) = "on-time" /\ MockDelay(i) = Num(0)
      /\ MockIndex(i) = 8 => MockStatus(i) = "cancelled"

\* "AA2" (sum 180) and "AA0" (sum 178) were resolved.
C13_Witness ==
    /\ Len(history) = 2
    /\ history[1].flightNumber = <<"A", "A", "2">> /\ MockStatus(1) = "on-time"
    /\ history[2].flightNumber = <<"A", "A", "0">> /\ MockStatus(2) = "cancelled"

\* C14 as stated: indices 0-3 on-time, 4-6 delayed by 45, 120 and 30 minutes,
\* index 7 cancelled, indices 8-9 on-time.
C14_AsStated ==
    \A i \in DOMAIN history :
      /\ MockIndex(i) \in 0..3 => MockStatus(i) = "on-time"
      /\ MockIndex(i) = 4 => MockStatus(i) = "delayed" /\ MockDelay(i) = Num(45)
      /\ MockIndex(i) = 5 => MockStatus(i) = "delayed" /\ MockDelay(i) = Num(120)
      /\ MockIndex(i) = 6 => MockStatus(i) = "delayed" /\ MockDelay(i) = Num(30)
      /\ MockIndex(i) = 7 => MockStatus(i) = "cancelled"
      /\ MockIndex(i) \in 8..9 => MockStatus(i) = "on-time"

\* C14: the mock table indexed by the character-code sum modulo 10 holds
\* on-time at indices 0-3, delayed by 45, 120 and 30 minutes at indices 4-6,
\* on-time at index 7, cancelled (without delayMinutes) at index 8 and
\* on-time at index 9; every on-time entry has delayMinutes 0.
C14_MockTableOrder ==
    \A i \in DOMAIN history :
      /\ MockIndex(i) \in {0, 1, 2, 3, 7, 9} =>
           MockStatus(i) = "on-time" /\ MockDelay(i) = Num(0)
      /\ MockIndex(i) = 4 => MockStatus(i) = "delayed" /\ MockDelay(i) = Num(45)
      /\ MockIndex(i) = 5 => MockStatus(i) = "delayed" /\ MockDelay(i) = Num(120)
      /\ MockIndex(i) = 6 => MockStatus(i) = "delayed" /\ MockDelay(i) = Num(30)
      /\ MockIndex(i) = 8 => MockStatus(i) = "cancelled" /\ MockDelay(i) = Undefined

\* Flight numbers of index 7 and of index 8 were resolved.
C14_Witness ==
    /\ Len(history) = 2
    /\ MockIndex(1) = 7 /\ MockStatus(1) = "on-time"
    /\ MockIndex(2) = 8 /\ MockStatus(2) = "cancelled"

----------------------------------------------------------------------------
(* Claims about flight-number parsing, checked under ParseSpec.             *)

\* The characters of s that are not whitespace, in order.
Visible(s) == SelectSeq(s, LAMBDA c : c # " ")

\* The number of leading letters of s.
RECURSIVE LetterRun(_)
LetterRun(s) ==
    IF s = <<>> \/ Head(s) \notin Letters THEN 0 ELSE 1 + LetterRun(Tail(s))

\* s, whitespace aside, is 2-3 letters followed by one or more digits.
WellFormed(s) ==
    LET v == Visible(s)
        n == LetterRun(v)
    IN  /\ n \in 2..3
        /\ Len(v) > n
        /\ \A i \in (n + 1)..Len(v) : v[i] \in Digits

\* C15: "aa 1234" normalizes to "AA1234" and parses to airline "AA", number
\* "1234"; for any input of 2-3 letters followed by digits, in any case and
\* with any whitespace, the airline is the (uppercased) letter run and the
\* number is the digit run, whether the raw or the stored form is parsed.
C15_NormalizeParseRoundTrip ==
    \A i \in DOMAIN history :
      LET h == history[i]
          v == Visible(h.raw)
          n == LetterRun(v)
      IN  /\ h.raw = <<"a", "a", " ", "1", "2", "3", "4">> =>
               /\ h.stored = <<"A", "A", "1", "2", "3", "4">>
               /\ h.parsedStored.airline = <<"A", "A">>
               /\ h.parsedStored.number = <<"1", "2", "3", "4">>
          /\ WellFormed(h.raw) =>
               /\ h.parsedRaw.airline = [j \in 1..n |-> UpperChar(v[j])]
               /\ h.parsedRaw.number = SubSeq(v, n + 1, Len(v))
               /\ h.parsedStored = h.parsedRaw
               /\ h.parsedRaw.full = h.stored

\* A three-letter airline in mixed case with whitespace inside was parsed.
C15_Witness ==
    /\ Len(history) = 1
    /\ history[1].raw = <<"a", "b", "A", " ", "1">>
    /\ history[1].parsedRaw.airline = <<"A", "B", "A">>
    /\ history[1].parsedRaw.number = <<"1">>

----------------------------------------------------------------------------
(* Claims about the sweep, checked under Spec.                              *)

AuthMessage == <<"Invalid FlightAware API credentials">>

\* The stored record with the given id (the id is stored).
Stored(fl, id) == fl[Position(fl, id)]

\* C3: an authentication failure (HTTP 401) answered to a call of a sweep is
\* fatal to the sweep: the sweep ends with the failure, issues no further
\* update, and the failure is not written to the record as an `error` status.
C3_AuthFailureIsFatal ==
    \A k \in DOMAIN sweeps :
      \A i \in DOMAIN sweeps[k].log :
        sweeps[k].log[i].answer = "auth" =>
          /\ sweeps[k].pc = "failed"
          /\ i = Len(sweeps[k].log)
          /\ \A j \in DOMAIN flights :
               flights[j].id = sweeps[k].log[i].id =>
                 ~(/\ flights[j].status = "error"
                   /\ flights[j].statusDetails.message = AuthMessage)

\* C4: after a rate-limit failure (HTTP 429) answered to a call of a sweep,
\* that sweep issues no further provider call for the rest of its work list.
C4_RateLimitAborts ==
    \A k \in DOMAIN sweeps :
      \A i, j \in DOMAIN sweeps[k].log :
        (i < j /\ sweeps[k].log[i].answer = "rate") =>
          sweeps[k].log[j].answer = "missing"

\* The message getFlightStatus throws for a transient failure.
TransientMessage(answer) ==
    IF answer = "network"
      THEN <<"Failed to fetch flight status: ", "timeout of 10000ms exceeded">>
      ELSE <<"Failed to fetch flight status: ", "Cannot read properties of null">>

\* The log entry of the call sweep k awaits, once this step has answered it.
AnsweredEntry(k) == sweeps'[k].log[Len(sweeps'[k].log)]

\* A transient failure (no answer from the provider, or a malformed payload)
\* is answered, in this step, to the call sweep k awaits.
TransientAnswered(k) ==
    /\ sweeps[k].pc = "resolving"
    /\ AnsweredEntry(k).answer \in {"network", "malformed"}

\* C5: when a resolution fails with a transient failure, the record's status
\* becomes `error` with the failure message in statusDetails.message, the
\* sweep goes on to its pause and then to the next flight of its work list,
\* and a sweep whose flights failed only transiently is never ended by a
\* failure and finishes only when its work list is exhausted.
C5_TransientFailureContinues ==
    /\ [](\A k \in DOMAIN sweeps :
            /\ sweeps[k].pc = "failed" =>
                 \E i \in DOMAIN sweeps[k].log :
                   sweeps[k].log[i].answer \in {"auth", "rate"}
            /\ sweeps[k].pc = "done" => Len(sweeps[k].log) = Len(sweeps[k].work))
    /\ [][\A k \in DOMAIN sweeps :
            /\ TransientAnswered(k) =>
                 LET id == sweeps[k].work[sweeps[k].next]
                 IN  /\ Stored(flights', id).status = "error"
                     /\ Stored(flights', id).statusDetails.message =
                          TransientMessage(AnsweredEntry(k).answer)
                     /\ sweeps'[k].pc = "pausing"
            /\ (/\ sweeps[k].pc = "pausing"
                /\ sweeps[k].next < Len(sweeps[k].work)
                /\ sweeps'[k] # sweeps[k]) =>
                 /\ sweeps'[k].next = sweeps[k].next + 1
                 /\ sweeps'[k].pc \in {"resolving", "pausing"}
                 /\ Len(sweeps'[k].log) = Len(sweeps[k].log) + 1
                 /\ sweeps'[k].log[Len(sweeps'[k].log)].id =
                      sweeps[k].work[sweeps[k].next + 1]]_vars

\* The first flight of a sweep failed on a malformed payload, its record holds
\* the `error` status, and the second flight of the work list was resolved
\* after it.
C5_Witness ==
    \E k \in DOMAIN sweeps :
      /\ Len(sweeps[k].log) = 2
      /\ sweeps[k].log[1].answer = "malformed"
      /\ sweeps[k].log[2].answer \in {"data", "network"}
      /\ sweeps[k].pc = "done"
      /\ Stored(flights, sweeps[k].log[1].id).status = "error"

----------------------------------------------------------------------------
(* Claims about the store, checked under StoreSpec, Spec and CronSpec.      *)

\* The ids of the records of store fl, in array order.
Ids(fl) == [i \in DOMAIN fl |-> fl[i].id]

IdSet(fl) == {fl[i].id : i \in DOMAIN fl}

\* C16: after any sequence of create, import, edit, refresh and sweep
\* operations the flightNumber of every stored record is uppercase and holds
\* no whitespace; a step changes the flightNumber of a stored record only by
\* an edit that gives a new one, so a status resolution never changes it.
C16_FlightNumberNormalized ==
    /\ [](\A i \in DOMAIN flights :
            \A j \in DOMAIN flights[i].flightNumber :
              /\ flights[i].flightNumber[j] # " "
              /\ flights[i].flightNumber[j] \notin {"a", "b", "c"})
    /\ [][\A id \in IdSet(flights) \cap IdSet(flights') :
            Stored(flights', id).flightNumber # Stored(flights, id).flightNumber =>
              \E body \in EditBodies :
                /\ body.number # <<>>
                /\ Stored(flights', id).flightNumber =
                     ToUpperCase(StripWhitespace(body.number))]_vars

\* A record created from "ab 1" was resolved, and a record imported from
\* "ab 1" was edited to "Aa1 " and resolved again.
C16_Witness ==
    /\ Len(flights) = 2
    /\ flights[1].flightNumber = <<"A", "B", "1">>
    /\ flights[1].status = "on-time"
    /\ flights[2].flightNumber = <<"A", "A", "1">>
    /\ flights[2].status \in {"on-time", "error"}
    /\ \E k \in DOMAIN sweeps : sweeps[k].by = "upload" /\ sweeps[k].work = <<2>>
    /\ \E k \in DOMAIN sweeps : sweeps[k].by = "cron" /\ sweeps[k].pc = "done"
                                  /\ Len(sweeps[k].log) = 2

StatusKinds == {"on-time", "delayed", "cancelled", "checking", "error", "unknown"}

\* C17: in every reachable state the status of every stored record is one of
\* on-time, delayed, cancelled, checking, error, unknown, and so is never
\* null or absent.
C17_StatusIsAKind ==
    \A i \in DOMAIN flights : flights[i].status \in StatusKinds

\* One record's lookup found nothing and the other's resolution failed.
C17_Witness ==
    /\ Len(flights) = 2
    /\ flights[1].status = "unknown"
    /\ flights[2].status = "error"

\* C18: no two stored records share an id; a step never changes the id of a
\* record that stays (the ids that stay keep their order), and every id that
\* appears is at least the counter before the step, so greater than every id
\* assigned before, removed or not; the counter never decreases.
C18_IdsUniqueAndFresh ==
    /\ [](/\ \A i, j \in DOMAIN flights : flights[i].id = flights[j].id => i = j
          /\ \A i \in DOMAIN flights : flights[i].id \in 1..(nextId - 1))
    /\ [][/\ nextId' >= nextId
           /\ \A id \in IdSet(flights') \ IdSet(flights) : id \in nextId..(nextId' - 1)
           /\ SelectSeq(Ids(flights'), LAMBDA x : x \in IdSet(flights)) =
                SelectSeq(Ids(flights), LAMBDA x : x \in IdSet(flights'))]_vars

\* Record 1 was removed and the record created after that has id 2.
C18_Witness ==
    /\ Len(flights) = 1
    /\ flights[1].id = 2
    /\ nextId = 3

\* C19: no two calls awaited for sweeps of the periodic trigger are
\* resolutions of the same flight id.
C19_OneResolutionPerFlight ==
    \A c, d \in calls :
      (/\ c.by = "sweep" /\ d.by = "sweep"
       /\ c.sweep \in CronSweeps /\ d.sweep \in CronSweeps
       /\ c.id = d.id) => c = d

\* C20: a retention cleanup removes exactly the records whose departureTime
\* is more than 48 hours before now and leaves every other record in the
\* store, unchanged and in order.
C20_CleanupRemovesExactlyOld ==
    [][CleanupOldFlights =>
         flights' = SelectSeq(flights,
                              LAMBDA f : ~(/\ f.departureTime.kind = "date"
                                           /\ now - f.departureTime.t > 48 * UnitsPerHour))]_vars

----------------------------------------------------------------------------
(* Further claims about flight-number parsing, checked under ParseSpec.     *)

\* C30: for every input the airline and number parseFlightNumber returns
\* concatenate to the cleaned (whitespace-stripped, uppercased) input, when
\* the pattern matches and in the fallback; the provider ident equals the
\* normalized flight number; parsing the `full` output again gives the same
\* result.
C30_ParsePartitionsCleaned ==
    \A i \in DOMAIN history :
      LET h == history[i]
          v == Visible(h.raw)
          cleaned == [j \in DOMAIN v |-> UpperChar(v[j])]
      IN  /\ h.parsedRaw.airline \o h.parsedRaw.number = cleaned
          /\ h.parsedRaw.full = cleaned
          /\ h.ident = h.stored
          /\ h.stored = cleaned
          /\ h.reparsed = h.parsedRaw

\* An input the pattern does not match (four letters) went through the
\* fallback.
C30_Witness ==
    /\ Len(history) = 1
    /\ history[1].raw = <<"a", "b", " ", "A", "b">>
    /\ history[1].parsedRaw.airline = <<"A", "B">>
    /\ history[1].parsedRaw.number = <<"A", "B">>
    /\ history[1].ident = <<"A", "B", "A", "B">>

----------------------------------------------------------------------------
(* Claims about the order of a sweep, checked under Spec.                   *)

\* The provider calls awaited by sweep k.
CallsOf(k) == {c \in calls : c.by = "sweep" /\ c.sweep = k}

\* C23: within one run of updateAllFlights the flights are resolved one at a
\* time in work-list order: a sweep awaits at most one provider call, the one
\* for the flight it is at; its log follows the work list; and the resolution
\* of the next flight begins only from the pause, which is entered only when
\* the previous resolution has completed.
C23_SweepIsSequential ==
    /\ [](\A k \in DOMAIN sweeps :
            /\ Cardinality(CallsOf(k)) <= 1
            /\ \A c \in CallsOf(k) :
                 /\ sweeps[k].pc = "resolving"
                 /\ c.id = sweeps[k].work[sweeps[k].next]
            /\ sweeps[k].pc = "pausing" => CallsOf(k) = {}
            /\ \A i \in DOMAIN sweeps[k].log :
                 sweeps[k].log[i].id = sweeps[k].work[i])
    /\ [][\A k \in DOMAIN sweeps :
            Len(sweeps'[k].log) # Len(sweeps[k].log) =>
              /\ sweeps[k].pc = "pausing"
              /\ Len(sweeps'[k].log) = Len(sweeps[k].log) + 1]_vars

\* The sweep completed the first flight of a two-flight work list and awaits
\* the provider for the second.
C23_Witness ==
    \E k \in DOMAIN sweeps :
      /\ Len(sweeps[k].work) = 2
      /\ sweeps[k].next = 2
      /\ sweeps[k].pc = "resolving"
      /\ sweeps[k].log[1].answer = "data"
      /\ \E c \in CallsOf(k) : c.id = sweeps[k].work[2]

----------------------------------------------------------------------------
(* Claims about one status-resolution cycle, checked under Spec.            *)

\* The fields of a record a status resolution is not to change.
OtherFields(f) ==
    [id |-> f.id, employeeName |-> f.employeeName, flightNumber |-> f.flightNumber,
     departureTime |-> f.departureTime, origin |-> f.origin,
     destination |-> f.destination, createdAt |-> f.createdAt]

\* C26: every resolution that completes on a stored record, with a
\* classification or with `error`, leaves the record with status,
\* statusDetails, lastChecked and updatedAt all written by it (the two
\* timestamps are the time of completion), and with no other field changed.
C26_CycleWritesFourFields ==
    [][\A c \in calls \ calls' :
         c.id \in IdSet(flights') =>
           LET before == Stored(flights, c.id)
               after == Stored(flights', c.id)
           IN  /\ after.status \in StatusKinds \ {"checking"}
               /\ after.statusDetails # EmptyDetails
               /\ after.lastChecked = DateAt(now)
               /\ after.updatedAt = DateAt(now)
               /\ OtherFields(after) = OtherFields(before)]_vars

----------------------------------------------------------------------------
(* Claims about re-polling, checked under PollSpec.                         *)

\* C27: a record first classified cancelled when it was created, and
\* classified cancelled by every resolution since, is resolved by the sweep
\* for at most 24 hours after that: its last resolution is never later than
\* 24 hours after its creation.
C27_CancelledPolledOneDay ==
    \A i \in DOMAIN flights :
      flights[i].status = "cancelled" =>
        flights[i].lastChecked.t - flights[i].createdAt.t <= 24 * UnitsPerHour

----------------------------------------------------------------------------
(* The HTTP interface: requests are dispatched to the first route whose      *)
(* pattern matches, in the order the routes are registered.                  *)

MaxRequests == 3          \* requests answered in one behaviour

\* The GET routes in the order of their registration; a segment that starts
\* with a colon is a parameter.
GetRoutes ==
    << [pattern |-> <<"api", "health">>, handler |-> "health"],
       [pattern |-> <<"api", "flights">>, handler |-> "list"],
       [pattern |-> <<"api", "flights", ":id">>, handler |-> "get"],
       [pattern |-> <<"api", "flights", "past">>, handler |-> "past"],
       [pattern |-> <<"api", "search">>, handler |-> "search"] >>

\* A path matches a pattern segment by segment; a parameter matches any
\* segment.
Matches(pattern, path) ==
    /\ Len(pattern) = Len(path)
    /\ \A i \in DOMAIN pattern : pattern[i] = ":id" \/ pattern[i] = path[i]

\* The handler a GET request for path is dispatched to: that of the first
\* matching route, or the 404 handler registered after all routes.
Dispatch(routes, path) ==
    IF \E i \in DOMAIN routes : Matches(routes[i].pattern, path)
      THEN routes[CHOOSE i \in DOMAIN routes :
                    /\ Matches(routes[i].pattern, path)
                    /\ \A j \in 1..(i - 1) : ~Matches(routes[j].pattern, path)].handler
      ELSE "notFound"

\* parseInt(req.params.id): NaN unless the segment is a number.
ParseInt(segment) ==
    CASE segment = "1" -> [nan |-> FALSE, value |-> 1]
      [] segment = "2" -> [nan |-> FALSE, value |-> 2]
      [] segment = "3" -> [nan |-> FALSE, value |-> 3]
      [] OTHER -> [nan |-> TRUE, value |-> 0]

\* haystack.includes(needle)
Includes(haystack, needle) ==
    \E from \in 0..Len(haystack) :
      /\ from + Len(needle) <= Len(haystack)
      /\ SubSeq(haystack, from + 1, from + Len(needle)) = needle

\* allFlights.filter(f => isFlightInPast(f)) and its complement, as the ids
\* kept; `raised` when isFlightInPast throws on some record.
RECURSIVE filterPast(_, _, _)
filterPast(fl, t, wanted) ==
    IF fl = <<>> THEN [ids |-> <<>>, raised |-> FALSE]
    ELSE LET past == isFlightInPast(MemoryRow(Head(fl)), t)
             rest == filterPast(Tail(fl), t, wanted)
         IN  [ids |-> (IF ~past.raised /\ past.value = wanted
                         THEN <<Head(fl).id>> ELSE <<>>) \o rest.ids,
              raised |-> past.raised \/ rest.raised]

\* flights.filter(flight => flight.flightNumber.includes(q.toUpperCase()))
RECURSIVE filterNumber(_, _)
filterNumber(fl, q) ==
    IF fl = <<>> THEN <<>>
    ELSE (IF Includes(Head(fl).flightNumber, ToUpperCase(q))
            THEN <<Head(fl).id>> ELSE <<>>) \o filterNumber(Tail(fl), q)

\* The JSON answers: the handler that answered, the HTTP status, the
\* `success` field and the ids of the flights returned.
Answer(handler, status, success, ids) ==
    [handler |-> handler, status |-> status, success |-> success, ids |-> ids]

\* The handlers of the GET routes, in-memory branch, on store fl at clock t.
handleGet(handler, path, query, fl, t) ==
    CASE handler = "health" -> Answer("health", 200, TRUE, <<>>)
      [] handler = "list" ->
           LET active == filterPast(fl, t, FALSE)
           IN  IF active.raised THEN Answer("list", 500, FALSE, <<>>)
               ELSE Answer("list", 200, TRUE,
                           IF query.includePast THEN Ids(fl) ELSE active.ids)
      [] handler = "get" ->
           LET flightId == ParseInt(path[3])
               pos == IF flightId.nan THEN 0 ELSE Position(fl, flightId.value)
           IN  IF pos = 0 THEN Answer("get", 404, FALSE, <<>>)
               ELSE Answer("get", 200, TRUE, <<fl[pos].id>>)
      [] handler = "past" ->
           LET past == filterPast(fl, t, TRUE)
           IN  IF past.raised THEN Answer("past", 500, FALSE, <<>>)
               ELSE Answer("past", 200, TRUE, past.ids)
      [] handler = "search" ->
           IF query.flightNumber = <<>> THEN Answer("search", 400, FALSE, <<>>)
           ELSE Answer("search", 200, TRUE, filterNumber(fl, query.flightNumber))
      [] OTHER -> Answer("notFound", 404, FALSE, <<>>)

\* The answer to a GET request.
get(path, query, fl, t) == handleGet(Dispatch(GetRoutes, path), path, query, fl, t)

GetPaths ==
    {<<"api", "health">>, <<"api", "flights">>, <<"api", "flights", "1">>,
     <<"api", "flights", "3">>, <<"api", "flights", "past">>,
     <<"api", "search">>, <<"api", "airports">>}

\* Query strings: includePast=true or absent, flightNumber given or absent.
GetQueries == [includePast : BOOLEAN, flightNumber : {<<>>, <<"a", "b">>}]

\* Departure times given to create requests: none, or three days ago.
ApiDepartures(t) == {Undefined, DateAt(t - 72 * UnitsPerHour)}

\* Bodies of POST /api/flights, with and without the required fields.
PostBodies(t) ==
    {CreateBody(name, number, departure) :
       name \in {"Ann", NoString},
       number \in {<<"a", "b", " ", "1">>, <<>>},
       departure \in ApiDepartures(t)}

unusedByApi == <<outcome, flight, verdict, history>>

\* The state in which request number reply.seq + 1 is answered with answer.
Respond(req, answer) ==
    /\ request' = req
    /\ reply' = [seq |-> reply.seq + 1, answer |-> answer]

\* POST /api/flights
PostFlight ==
    \E body \in PostBodies(now) :
      LET posted == postFlight(body, flights, nextId, now)
      IN  /\ reply.seq < MaxRequests
          /\ posted.nextId <= MaxFlights + 1
          /\ flights' = posted.flights
          /\ nextId' = posted.nextId
          /\ calls' = calls \cup posted.issued
          /\ Respond([method |-> "POST", path |-> <<"api", "flights">>, body |-> body],
                     [handler |-> "create", status |-> posted.status,
                      success |-> posted.success])
          /\ UNCHANGED <<apiKey, now, sweeps>>
          /\ UNCHANGED unusedByApi

\* Spreadsheets of one to three rows, with rows that lack the flight number
\* or hold a departure time that is no date.
UploadFiles ==
    ImportFiles \cup
    {<<ImportRow(<<>>, Undefined)>>,
     <<ImportRow(<<"A", "A", "1", "1">>, Undefined), ImportRow(<<>>, Garbage),
       ImportRow(<<"a", "b", " ", "1">>, Undefined)>>}

\* POST /api/flights/upload
UploadFlights ==
    \E file \in UploadFiles :
      \E uploaded \in {uploadFlights(file, flights, nextId, sweeps, now)} :
          /\ reply.seq < MaxRequests
          /\ Cardinality(UploadLoops) < MaxImports
          /\ uploaded.nextId <= MaxFlights + 1
          /\ flights' = uploaded.flights
          /\ nextId' = uploaded.nextId
          /\ calls' = calls \cup uploaded.issued
          /\ sweeps' = uploaded.sweeps
          /\ Respond([method |-> "POST", path |-> <<"api", "flights", "upload">>,
                      body |-> file],
                     [handler |-> "upload", status |-> uploaded.status,
                      success |-> uploaded.success, added |-> uploaded.added,
                      errors |-> uploaded.errors])
          /\ UNCHANGED <<apiKey, now>>
          /\ UNCHANGED unusedByApi

\* A GET request: no handler of a GET route changes the store.
GetRequest ==
    \E path \in GetPaths, query \in GetQueries :
      /\ reply.seq < MaxRequests
      /\ Respond([method |-> "GET", path |-> path, body |-> query],
                 get(path, query, flights, now))
      /\ UNCHANGED <<apiKey, flights, nextId, now, calls, sweeps>>
      /\ UNCHANGED unusedByApi

ApiNext ==
    \/ PostFlight
    \/ UploadFlights
    \/ GetRequest
    \/ StoreProviderAnswers
    \/ PauseElapsed

ApiSpec == Init /\ [][ApiNext]_vars

----------------------------------------------------------------------------
(* Resolutions racing with each other and with removals: create, manual     *)
(* refresh, one sweep, delete and retention cleanup on a server with a       *)
(* credential, with a record of the resolution that completed last for each  *)
(* flight.                                                                   *)

MaxRaceFlights == 1       \* flights created
MaxRacing == 2            \* provider calls awaited at once by refreshes
MaxRaceTicks == 2         \* clock advances, of one unit each

\* The provider's answers in this model: a delayed flight, or no answer.
RaceAnswers(ident, t) == {DataAnswer(<<DelayedPayload(ident, t)>>), NetworkFailure}

unusedByRace == <<request, outcome, flight, verdict, reply>>

\* No resolution has completed for any flight.
NoResolutions == [id \in 1..MaxFlights |-> NoRecord]

RaceInit ==
    /\ apiKey = TRUE
    /\ flights = <<>>
    /\ nextId = 1
    /\ now = 0
    /\ calls = {}
    /\ sweeps = <<>>
    /\ history = NoResolutions
    /\ reply = NoResponse
    /\ request = NoRequest
    /\ outcome = NotResolved
    /\ flight = NoRecord
    /\ verdict = NoRecord

RaceCreate ==
    /\ nextId <= MaxRaceFlights
    /\ createFlight({<<"A", "A", "1", "1">>},
                    {Undefined, DateAt(now - RetentionHours * UnitsPerHour - 1)})

RaceRefresh == refreshFlight(MaxRacing)

RaceSweep == startSweep(MaxSweeps)

\* The callers whose resolutions of flight id are awaiting the provider.
Awaiting(id, inFlight) == {c.by : c \in {d \in inFlight : d.id = id}}

\* The provider answers call c; the record of the flight's last resolution
\* takes the caller, whether the flight was still stored, what getFlightStatus
\* gave, the time, the callers still awaiting the provider for the flight
\* (`others`), and caller and `others` of the resolution that completed
\* before this one (`before`).
raceAnswers(c, response) ==
    LET resumed == resumeUpdate(c, response, flights, sweeps, now)
    IN  /\ flights' = resumed.flights
        /\ calls' = calls \ {c}
        /\ sweeps' = resumed.sweeps
        /\ history' = [history EXCEPT ![c.id] =
                          [pc |-> "done", by |-> c.by, stored |-> resumed.stored,
                           result |-> resumed.result, at |-> now,
                           others |-> Awaiting(c.id, calls \ {c}),
                           before |-> IF @.pc = "done"
                                        THEN [pc |-> "done", by |-> @.by,
                                              others |-> @.others]
                                        ELSE NoRecord]]
        /\ UNCHANGED <<apiKey, nextId, now>>
        /\ UNCHANGED unusedByRace

RaceProviderAnswers ==
    \E c \in calls :
      \E response \in RaceAnswers(c.flightNumber, now) : raceAnswers(c, response)

\* Time passes while calls are awaited.
RaceTick ==
    /\ now < MaxRaceTicks
    /\ now' = now + 1
    /\ UNCHANGED <<apiKey, flights, nextId, calls, sweeps>>
    /\ UNCHANGED unusedByServer

RaceNext ==
    \/ RaceCreate
    \/ RaceRefresh
    \/ RaceSweep
    \/ RaceProviderAnswers
    \/ PauseElapsed
    \/ DeleteFlight
    \/ CleanupOldFlights
    \/ RaceTick

RaceSpec == RaceInit /\ [][RaceNext]_vars

----------------------------------------------------------------------------
(* Progress of the resolutions: every provider call is answered or times    *)
(* out after 10 s (axios timeout), and every 1 s pause of a loop ends.       *)

MaxLoops == 2             \* loops: one import and one sweep

LiveFlightNumbers == {<<"A", "B", "1">>, <<"A", "A", "1", "1">>}

\* Every call updateFlightStatus can be awaiting.
LiveCalls ==
    {Call(id, number, by, k) :
       id \in 1..MaxFlights, number \in LiveFlightNumbers,
       by \in {"create", "refresh", "sweep"}, k \in 0..MaxLoops}

LiveCreate ==
    /\ createFlight({<<"a", "b", " ", "1">>}, {Undefined})
    /\ Cardinality(calls') <= MaxRacing

\* Spreadsheets of two valid rows, and of one.
LiveFiles ==
    {<<ImportRow(<<"a", "b", " ", "1">>, Undefined),
       ImportRow(<<"A", "A", "1", "1">>, Undefined)>>,
     <<ImportRow(<<"A", "A", "1", "1">>, Undefined)>>}

LiveImport == importFlights(LiveFiles)

LiveRefresh == refreshFlight(MaxRacing)

\* The provider answers call c, or the call times out.
answerCall(c) ==
    /\ c \in calls
    /\ \E response \in StoreAnswers(c.flightNumber, now) : providerAnswers(c, response)

LiveProviderAnswers == \E c \in LiveCalls : answerCall(c)

LiveNext ==
    \/ LiveCreate
    \/ LiveImport
    \/ LiveRefresh
    \/ StoreSweep
    \/ DeleteFlight
    \/ LiveProviderAnswers
    \/ PauseElapsed

\* Each call in flight ends and each pause in progress elapses; nothing is
\* assumed of the requests and of the trigger.
LiveSpec ==
    /\ Init
    /\ [][LiveNext]_vars
    /\ \A c \in LiveCalls : WF_vars(answerCall(c))
    /\ \A k \in 1..MaxLoops : WF_vars(pauseElapsed(k))

----------------------------------------------------------------------------
(* Claims about the HTTP interface, checked under ApiSpec.                  *)

\* The request answered by this step.
Answered(method, path) ==
    /\ reply'.seq # reply.seq
    /\ request'.method = method
    /\ request'.path = path

\* C21: a create request that lacks employeeName or flightNumber is answered
\* with an error (HTTP 400, success false) and changes nothing: the store,
\* the id counter, the provider calls in flight and the background loops are
\* as before, so no record is created and no status resolution is started.
C21_InvalidCreateChangesNothing ==
    [][(/\ Answered("POST", <<"api", "flights">>)
        /\ \/ request'.body.employeeName = NoString
           \/ request'.body.flightNumber = <<>>)
       => /\ reply'.answer.status = 400
          /\ reply'.answer.success = FALSE
          /\ UNCHANGED <<flights, nextId, calls, sweeps>>]_vars

\* A create request with a name and no flight number was rejected while a
\* record was stored.
C21_Witness ==
    /\ reply.seq > 0
    /\ reply.answer.handler = "create"
    /\ reply.answer.status = 400
    /\ request.body.employeeName = "Ann"
    /\ request.body.flightNumber = <<>>
    /\ flights # <<>>

\* A row holding the required cells and a departure time that is absent or
\* is a date.
ValidRow(row) ==
    /\ row.number # <<>>
    /\ ~(Truthy(row.departure) /\ NewDate(row.departure).nan)

ValidRows(file) == SelectSeq(file, ValidRow)

MissingRows(file) == SelectSeq(file, LAMBDA row : row.number = <<>>)

\* C22: in a spreadsheet import every row is processed: each valid row adds
\* exactly one record to the end of the store, in row order, each row missing
\* a required cell (and each other failing row) adds one row error and no
\* record, and the number of records added plus the number of row errors is
\* the number of rows.
C22_ImportIsPerRow ==
    [][Answered("POST", <<"api", "flights", "upload">>) =>
         LET file == request'.body
             valid == ValidRows(file)
         IN  /\ reply'.answer.status = 200
             /\ reply'.answer.added = Len(valid)
             /\ reply'.answer.errors = Len(file) - Len(valid)
             /\ reply'.answer.errors >= Len(MissingRows(file))
             /\ reply'.answer.added + reply'.answer.errors = Len(file)
             /\ Len(flights') = Len(flights) + Len(valid)
             /\ \A i \in DOMAIN flights : flights'[i] = flights[i]
             /\ \A i \in DOMAIN valid :
                  flights'[Len(flights) + i].flightNumber = Normalize(valid[i].number)]_vars

\* An import of three rows whose second row lacks the flight number stored
\* the first and the third row.
C22_Witness ==
    /\ reply.seq > 0
    /\ reply.answer.handler = "upload"
    /\ Len(request.body) = 3
    /\ request.body[2].number = <<>>
    /\ reply.answer.added = 2
    /\ reply.answer.errors = 1
    /\ Len(flights) = 2

\* C29: a GET request to /api/flights/past is answered by the past-flights
\* handler, with success: true and exactly the stored flights for which
\* isFlightInPast is true.
C29_PastRouteAnswersPast ==
    [][Answered("GET", <<"api", "flights", "past">>) =>
         reply'.answer = Answer("past", 200, TRUE,
                                filterPast(flights, now, TRUE).ids)]_vars

----------------------------------------------------------------------------
(* Claims about concurrent resolutions and removals, checked under RaceSpec. *)

\* What updateFlightStatus writes for the resolution recorded in entry.
Written(entry) ==
    [status |-> IF entry.result.threw THEN "error" ELSE entry.result.status,
     statusDetails |-> IF entry.result.threw
                         THEN [EmptyDetails EXCEPT !.message = entry.result.error]
                         ELSE entry.result.details,
     lastChecked |-> DateAt(entry.at)]

Triple(f) ==
    [status |-> f.status, statusDetails |-> f.statusDetails,
     lastChecked |-> f.lastChecked]

\* C24: the record of a flight holds what the resolution that completed last
\* for it wrote: statusDetails and lastChecked are that resolution's, and so
\* is the status unless a resolution begun since has set it to `checking`;
\* once no resolution of the flight is awaited, status, statusDetails and
\* lastChecked are all the last writer's, and the status is not `checking`.
C24_LastWriteWins ==
    \A i \in DOMAIN flights :
      LET f == flights[i]
          last == history[f.id]
      IN  /\ last.pc = "done" =>
               /\ f.statusDetails = Written(last).statusDetails
               /\ f.lastChecked = Written(last).lastChecked
               /\ f.status \in {Written(last).status, "checking"}
          /\ Awaiting(f.id, calls) = {} =>
               /\ last.pc = "done"
               /\ Triple(f) = Written(last)
               /\ f.status # "checking"

\* A refresh was awaiting the provider when the sweep's resolution of the
\* same flight completed with a delay; the refresh completed after it, later
\* on the clock, with a failure, and the record holds the failure.
C24_Witness ==
    \E i \in DOMAIN flights :
      LET f == flights[i]
          last == history[f.id]
      IN  /\ last.pc = "done"
          /\ last.by = "refresh"
          /\ last.before.pc = "done"
          /\ last.before.by = "sweep"
          /\ "refresh" \in last.before.others
          /\ last.others = {}
          /\ last.result.threw
          /\ last.at > 0
          /\ \E k \in DOMAIN sweeps :
               \E j \in DOMAIN sweeps[k].log :
                 sweeps[k].log[j].id = f.id /\ sweeps[k].log[j].answer = "data"
          /\ f.status = "error"

\* C28: a flight removed by delete or by retention cleanup is not put back
\* by a resolution of it that completes afterwards: such a completion leaves
\* the store as it is, an id absent from the store after it was given out
\* stays absent, and no answer to a GET request names an id that is not
\* stored.
C28_RemovedStaysRemoved ==
    /\ [](\A path \in GetPaths, query \in GetQueries :
            \A j \in DOMAIN get(path, query, flights, now).ids :
              get(path, query, flights, now).ids[j] \in IdSet(flights))
    /\ [][/\ \A c \in calls \ calls' :
               c.id \notin IdSet(flights) => flights' = flights
          /\ \A id \in 1..(nextId - 1) :
               id \notin IdSet(flights) => id \notin IdSet(flights')]_vars

\* The resolution that completed last for a flight found it removed, and the
\* flight is absent from the store.
C28_Witness ==
    \E id \in 1..MaxFlights :
      /\ history[id].pc = "done"
      /\ ~history[id].stored
      /\ id < nextId
      /\ id \notin IdSet(flights)

----------------------------------------------------------------------------
(* Claims about progress, checked under LiveSpec.                           *)

\* The flights a loop has yet to resolve.
YetToResolve(k) ==
    IF sweeps[k].pc \in {"resolving", "pausing"}
      THEN {sweeps[k].work[j] : j \in (sweeps[k].next + 1)..Len(sweeps[k].work)}
      ELSE {}

\* C25: `checking` is transient.  A record is `checking` when a provider
\* call for it begins; a resolution that completes on a stored record leaves
\* it with a status other than `checking`; a stored record is `checking`
\* only while a resolution of it is awaited or is yet to come in a running
\* loop; and every stored record that is `checking` is later resolved or
\* removed.
C25_CheckingIsTransient ==
    /\ [](\A i \in DOMAIN flights :
            flights[i].status = "checking" =>
              \/ Awaiting(flights[i].id, calls) # {}
              \/ \E k \in DOMAIN sweeps : flights[i].id \in YetToResolve(k))
    /\ [][/\ \A c \in calls' \ calls :
               Stored(flights', c.id).status = "checking"
          /\ \A c \in calls \ calls' :
               c.id \in IdSet(flights') =>
                 Stored(flights', c.id).status \in StatusKinds \ {"checking"}]_vars
    /\ \A id \in 1..MaxFlights :
         (id \in IdSet(flights) /\ Stored(flights, id).status = "checking")
           ~> (id \notin IdSet(flights) \/ Stored(flights, id).status # "checking")

\* An import loop has resolved both flights of a spreadsheet, the first with
\* a failure: neither is `checking` any more.
C25_Witness ==
    \E k \in DOMAIN sweeps :
      /\ sweeps[k].by = "upload"
      /\ sweeps[k].pc = "done"
      /\ Len(sweeps[k].log) = 2
      /\ sweeps[k].log[1].answer = "network"
      /\ \A j \in 1..2 :
           /\ sweeps[k].log[j].id \in IdSet(flights)
           /\ Stored(flights, sweeps[k].log[j].id).status \in {"error", "on-time"}

====
